---- MODULE Spec2Model ----
(***************************************************************************)
(* Model of the resilience layer of the DEX arbitrage bot:                 *)
(*   - AIAgent (src/src/config.js, the aiAgent.js part): error             *)
(*     classification, severity, diagnosis records, rolling error history, *)
(*     optimisation recommendations and system health;                     *)
(*   - SmartErrorHandler.wrapAsync (src/src/errorHandler.js): the retry    *)
(*     loop around an async function, with its await points as the places  *)
(*     where concurrent invocations on one handler interleave;             *)
(*   - the price fetcher (src/src/config.js, the priceFetcher.js part):    *)
(*     the normalizer of sqrtPriceX96 and fetchPricesMultipleDEXes;        *)
(*   - the arbitrage calculator (src/unnamed/part_001): price difference,  *)
(*     direction, profit after slippage and gas, and analyzeArbitrage;     *)
(*   - AIAgent.requestAuthorization: the authorization workflow;           *)
(*   - monitor and main (src/src/index.js): the monitoring loop, its       *)
(*     cycles, waits and the exits of the process.                         *)
(*                                                                         *)
(* Strings whose content the code inspects (error messages) are sequences  *)
(* of one-character strings, so that toLowerCase() and includes() are      *)
(* computed on the characters as JavaScript computes them.                 *)
(***************************************************************************)
EXTENDS Integers, Sequences, FiniteSets, TLC

VARIABLES
    handlerConfig,      \* SmartErrorHandler.config {maxRetries, retryDelayMs, exponentialBackoff, useAIAgent}
    errorLog,           \* SmartErrorHandler.errorLog
    inv,                \* the running invocations of wrapped functions: locals and position of each
    agentConfig,        \* AIAgent.config {errorHistoryLimit, requireAuthForChanges}
    errorHistory,       \* AIAgent.errorHistory
    diagnosticResults,  \* AIAgent.diagnosticResults
    recommendations,    \* AIAgent.recommendations
    performanceMetrics, \* AIAgent.performanceMetrics
    pendingChanges,     \* AIAgent.pendingChanges
    authorizedChanges,  \* AIAgent.authorizedChanges
    auth,               \* the requestAuthorization calls: arguments, request built, position and result of each
    clock,              \* the wall clock read by new Date()
    probe,              \* the (error, context) pair handed to a direct analyzeError call, and its diagnosis
    lastReport,         \* the systemHealth of the last generateOptimizationReport()
    fetch,              \* the fetchPricesMultipleDEXes call in flight: its reads, source promises and result
    norm,               \* the arguments handed to a direct sqrtPriceX96ToPrice call, and its results
    arb,                \* the arguments handed to a direct call of the arbitrage calculator, and its result
    tradingConfig,      \* the exported objects ARBITRAGE_CONFIG and GAS_CONFIG of config.js
    mon                 \* the process running monitor(): its position, cycleCount, interval and awaited waits

vars == <<handlerConfig, errorLog, inv, agentConfig, errorHistory, diagnosticResults,
          recommendations, performanceMetrics, pendingChanges, authorizedChanges, auth,
          clock, probe, lastReport, fetch, norm, arb, tradingConfig, mon>>

handlerVars == <<handlerConfig, errorLog, inv>>
authVars == <<pendingChanges, authorizedChanges, auth>>
agentVars == <<agentConfig, errorHistory, diagnosticResults, recommendations,
               performanceMetrics, clock, authVars>>
pipelineVars == <<fetch, norm, arb>>

-----------------------------------------------------------------------------
(* Bounds of the model *)

\* largest maxRetries a handler is configured with
MaxRetriesBound == 2
\* largest errorHistoryLimit an agent is configured with
MaxHistoryLimit == 3
\* number of direct analyzeError calls followed on one agent
MaxAnalyses == 11
\* number of optimizeTradingParameters calls followed on one agent
MaxOptimizations == 1
\* largest sqrtPriceX96 a pool reports or a caller passes
MaxSqrtPriceX96 == 2
\* longest outcome list handed to analyzeArbitrage
MaxOutcomes == 3
\* number of analysis cycles followed in one run of monitor
MaxCycles == 10

-----------------------------------------------------------------------------
(* JavaScript strings *)

UpperToLower ==
    [c \in {"A","B","C","D","E","F","G","H","I","J","K","L","M","N","O","P","Q","R","S","T","U","V","W","X","Y","Z"} |->
        CASE c = "A" -> "a" [] c = "B" -> "b" [] c = "C" -> "c" [] c = "D" -> "d"
          [] c = "E" -> "e" [] c = "F" -> "f" [] c = "G" -> "g" [] c = "H" -> "h"
          [] c = "I" -> "i" [] c = "J" -> "j" [] c = "K" -> "k" [] c = "L" -> "l"
          [] c = "M" -> "m" [] c = "N" -> "n" [] c = "O" -> "o" [] c = "P" -> "p"
          [] c = "Q" -> "q" [] c = "R" -> "r" [] c = "S" -> "s" [] c = "T" -> "t"
          [] c = "U" -> "u" [] c = "V" -> "v" [] c = "W" -> "w" [] c = "X" -> "x"
          [] c = "Y" -> "y" [] c = "Z" -> "z"]

\* String.prototype.toLowerCase
toLowerCase(s) ==
    [i \in 1..Len(s) |-> IF s[i] \in DOMAIN UpperToLower THEN UpperToLower[s[i]] ELSE s[i]]

\* String.prototype.includes
includes(s, sub) ==
    \E i \in 0..(Len(s) - Len(sub)) : \A j \in 1..Len(sub) : s[i + j] = sub[j]

\* the substrings _categorizeError searches for
kw ==
    [network |-> <<"n","e","t","w","o","r","k">>,
     timeout |-> <<"t","i","m","e","o","u","t">>,
     connection |-> <<"c","o","n","n","e","c","t","i","o","n">>,
     contract |-> <<"c","o","n","t","r","a","c","t">>,
     revert |-> <<"r","e","v","e","r","t">>,
     execution_reverted |-> <<"e","x","e","c","u","t","i","o","n"," ","r","e","v","e","r","t","e","d">>,
     price |-> <<"p","r","i","c","e">>,
     sqrtprice |-> <<"s","q","r","t","p","r","i","c","e">>,
     slot0 |-> <<"s","l","o","t","0">>,
     liquidity |-> <<"l","i","q","u","i","d","i","t","y">>,
     insufficient |-> <<"i","n","s","u","f","f","i","c","i","e","n","t">>,
     gas |-> <<"g","a","s">>,
     fee |-> <<"f","e","e">>,
     slippage |-> <<"s","l","i","p","p","a","g","e">>,
     price_impact |-> <<"p","r","i","c","e"," ","i","m","p","a","c","t">>,
     too_much |-> <<"t","o","o"," ","m","u","c","h">>,
     config |-> <<"c","o","n","f","i","g">>,
     invalid_address |-> <<"i","n","v","a","l","i","d"," ","a","d","d","r","e","s","s">>,
     unknown_pair |-> <<"u","n","k","n","o","w","n"," ","p","a","i","r">>,
     cannot_read |-> <<"c","a","n","n","o","t"," ","r","e","a","d">>,
     undefined |-> <<"u","n","d","e","f","i","n","e","d">>,
     null |-> <<"n","u","l","l">>,
     nan |-> <<"n","a","n">>]

\* error messages
msg ==
    [NetworkTimeout |->    \* "Network timeout"
         <<"N","e","t","w","o","r","k"," ","t","i","m","e","o","u","t">>,
     ExecutionReverted |->    \* "execution reverted"
         <<"e","x","e","c","u","t","i","o","n"," ","r","e","v","e","r","t","e","d">>,
     InvalidPriceData |->    \* "Invalid price data"
         <<"I","n","v","a","l","i","d"," ","p","r","i","c","e"," ","d","a","t","a">>,
     InsufficientLiquidity |->    \* "Insufficient liquidity"
         <<"I","n","s","u","f","f","i","c","i","e","n","t"," ","l","i","q","u","i","d","i","t","y">>,
     GasFeeTooLow |->    \* "Gas fee too low"
         <<"G","a","s"," ","f","e","e"," ","t","o","o"," ","l","o","w">>,
     SlippageTooHigh |->    \* "Slippage too high"
         <<"S","l","i","p","p","a","g","e"," ","t","o","o"," ","h","i","g","h">>,
     InvalidConfig |->    \* "Invalid config"
         <<"I","n","v","a","l","i","d"," ","c","o","n","f","i","g">>,
     CannotReadUndefined |->    \* "Cannot read undefined"
         <<"C","a","n","n","o","t"," ","r","e","a","d"," ","u","n","d","e","f","i","n","e","d">>,
     TestError |->    \* "Test error"
         <<"T","e","s","t"," ","e","r","r","o","r">>,
     PriceImpact |->    \* "price impact too much"
         <<"p","r","i","c","e"," ","i","m","p","a","c","t"," ","t","o","o"," ","m","u","c","h">>,
     UnknownPair |->    \* "Unknown pair: XYZ"
         <<"U","n","k","n","o","w","n"," ","p","a","i","r",":"," ","X","Y","Z">>,
     UnknownTradingPair |->    \* "Unknown trading pair: XYZ"
         <<"U","n","k","n","o","w","n"," ","t","r","a","d","i","n","g"," ","p","a","i","r",":"," ","X","Y","Z">>,
     Empty |->    \* ""
         <<>>,
     ConnectionContract |->    \* "Connection lost: contract call"
         <<"C","o","n","n","e","c","t","i","o","n"," ","l","o","s","t",":"," ","c","o","n","t","r","a","c","t"," ","c","a","l","l">>,
     InsufficientGas |->    \* "insufficient funds for gas"
         <<"i","n","s","u","f","f","i","c","i","e","n","t"," ","f","u","n","d","s"," ","f","o","r"," ","g","a","s">>,
     TooMuchSlippage |->    \* "Too much slippage"
         <<"T","o","o"," ","m","u","c","h"," ","s","l","i","p","p","a","g","e">>,
     ValueIsNaN |->    \* "value is NaN"
         <<"v","a","l","u","e"," ","i","s"," ","N","a","N">>,
     SLOT0 |->    \* "SLOT0 read failed"
         <<"S","L","O","T","0"," ","r","e","a","d"," ","f","a","i","l","e","d">>]
\* String(new Error("")), the text of an error without a message
strError ==
    <<"E","r","r","o","r">>

Messages ==
    {msg.NetworkTimeout, msg.ExecutionReverted, msg.InvalidPriceData, msg.InsufficientLiquidity, msg.GasFeeTooLow, msg.SlippageTooHigh, msg.InvalidConfig, msg.CannotReadUndefined, msg.TestError, msg.PriceImpact, msg.UnknownPair, msg.UnknownTradingPair, msg.Empty, msg.ConnectionContract, msg.InsufficientGas, msg.TooMuchSlippage, msg.ValueIsNaN, msg.SLOT0}

-----------------------------------------------------------------------------
(* Errors and contexts *)

\* error.code values; "" is an error without a code
Codes == {"", "NETWORK_ERROR", "CALL_EXCEPTION", "INSUFFICIENT_FUNDS", "network_error"}

\* context.operation values; "" is a context without an operation
Operations == {"", "price_fetch", "swap"}

ErrorObjects == [message : Messages, code : Codes]
Contexts == [operation : Operations]

\* one error per category (for a context without an operation), as thrown by wrapped functions
err ==
    [Network |-> [message |-> msg.NetworkTimeout, code |-> "NETWORK_ERROR"],
     Contract |-> [message |-> msg.ExecutionReverted, code |-> ""],
     Price |-> [message |-> msg.InvalidPriceData, code |-> ""],
     Liquidity |-> [message |-> msg.InsufficientLiquidity, code |-> ""],
     Gas |-> [message |-> msg.GasFeeTooLow, code |-> ""],
     Slippage |-> [message |-> msg.SlippageTooHigh, code |-> ""],
     Config |-> [message |-> msg.InvalidConfig, code |-> ""],
     Logic |-> [message |-> msg.CannotReadUndefined, code |-> ""],
     Unknown |-> [message |-> msg.TestError, code |-> ""]]

\* lastError = null
NoError == [message |-> msg.Empty, code |-> "null"]

-----------------------------------------------------------------------------
(* AIAgent *)

\* ERROR_CATEGORIES
ERROR_CATEGORIES ==
    [NETWORK |-> "network_error",
     CONTRACT |-> "contract_error",
     PRICE |-> "price_error",
     LIQUIDITY |-> "liquidity_error",
     GAS |-> "gas_error",
     SLIPPAGE |-> "slippage_error",
     CONFIG |-> "configuration_error",
     LOGIC |-> "logic_error",
     UNKNOWN |-> "unknown_error"]

\* the conditions of the eight rules of AIAgent._categorizeError, on the
\* lower-cased message, the code and the context
networkRule(message, code, context) ==
    \/ code = "NETWORK_ERROR" \/ includes(message, kw.network)
    \/ includes(message, kw.timeout) \/ includes(message, kw.connection)

contractRule(message, code, context) ==
    \/ includes(message, kw.contract) \/ includes(message, kw.revert)
    \/ includes(message, kw.execution_reverted) \/ code = "CALL_EXCEPTION"

priceRule(message, code, context) ==
    \/ includes(message, kw.price) \/ includes(message, kw.sqrtprice)
    \/ includes(message, kw.slot0) \/ context.operation = "price_fetch"

liquidityRule(message, code, context) ==
    includes(message, kw.liquidity) \/ includes(message, kw.insufficient)

gasRule(message, code, context) ==
    \/ includes(message, kw.gas) \/ includes(message, kw.fee)
    \/ code = "INSUFFICIENT_FUNDS"

slippageRule(message, code, context) ==
    \/ includes(message, kw.slippage) \/ includes(message, kw.price_impact)
    \/ includes(message, kw.too_much)

configRule(message, code, context) ==
    \/ includes(message, kw.config) \/ includes(message, kw.invalid_address)
    \/ includes(message, kw.unknown_pair)

logicRule(message, code, context) ==
    \/ includes(message, kw.cannot_read) \/ includes(message, kw.undefined)
    \/ includes(message, kw.null) \/ includes(message, kw.nan)

\* _categorizeError with the Liquidity rule tried before the Price rule
categorizeError_liquidityFirst(error, context) ==
    LET message == toLowerCase(error.message)
        code == error.code
    IN  IF networkRule(message, code, context) THEN ERROR_CATEGORIES.NETWORK
        ELSE IF contractRule(message, code, context) THEN ERROR_CATEGORIES.CONTRACT
        ELSE IF liquidityRule(message, code, context) THEN ERROR_CATEGORIES.LIQUIDITY
        ELSE IF priceRule(message, code, context) THEN ERROR_CATEGORIES.PRICE
        ELSE IF gasRule(message, code, context) THEN ERROR_CATEGORIES.GAS
        ELSE IF slippageRule(message, code, context) THEN ERROR_CATEGORIES.SLIPPAGE
        ELSE IF configRule(message, code, context) THEN ERROR_CATEGORIES.CONFIG
        ELSE IF logicRule(message, code, context) THEN ERROR_CATEGORIES.LOGIC
        ELSE ERROR_CATEGORIES.UNKNOWN

\* AIAgent._categorizeError: the rules are tried in the order of the code
categorizeError(error, context) ==
    LET message == toLowerCase(error.message)
        code == error.code
    IN  IF networkRule(message, code, context) THEN ERROR_CATEGORIES.NETWORK
        ELSE IF contractRule(message, code, context) THEN ERROR_CATEGORIES.CONTRACT
        ELSE IF priceRule(message, code, context) THEN ERROR_CATEGORIES.PRICE
        ELSE IF liquidityRule(message, code, context) THEN ERROR_CATEGORIES.LIQUIDITY
        ELSE IF gasRule(message, code, context) THEN ERROR_CATEGORIES.GAS
        ELSE IF slippageRule(message, code, context) THEN ERROR_CATEGORIES.SLIPPAGE
        ELSE IF configRule(message, code, context) THEN ERROR_CATEGORIES.CONFIG
        ELSE IF logicRule(message, code, context) THEN ERROR_CATEGORIES.LOGIC
        ELSE ERROR_CATEGORIES.UNKNOWN

\* severityMap of AIAgent._assessSeverity
severityMap ==
    [c \in {ERROR_CATEGORIES[k] : k \in DOMAIN ERROR_CATEGORIES} |->
        CASE c = ERROR_CATEGORIES.NETWORK -> 3 [] c = ERROR_CATEGORIES.CONTRACT -> 4 [] c = ERROR_CATEGORIES.PRICE -> 3
          [] c = ERROR_CATEGORIES.LIQUIDITY -> 4 [] c = ERROR_CATEGORIES.GAS -> 3 [] c = ERROR_CATEGORIES.SLIPPAGE -> 2
          [] c = ERROR_CATEGORIES.CONFIG -> 5 [] c = ERROR_CATEGORIES.LOGIC -> 5 [] c = ERROR_CATEGORIES.UNKNOWN -> 3]

\* _assessSeverity classifying the error without the context
assessSeverity_noContext(error, context) ==
    LET category == categorizeError(error, [operation |-> ""])
    IN  IF category \in DOMAIN severityMap THEN severityMap[category] ELSE 3

\* AIAgent._assessSeverity: classifies the error again and looks the severity up
assessSeverity(error, context) ==
    LET category == categorizeError(error, context)
    IN  IF category \in DOMAIN severityMap THEN severityMap[category] ELSE 3

\* AIAgent._findRootCause: the cause text of the category
findRootCause(category) ==
    CASE category = ERROR_CATEGORIES.NETWORK -> "Network connectivity or RPC endpoint issue"
      [] category = ERROR_CATEGORIES.CONTRACT -> "Smart contract execution failure"
      [] category = ERROR_CATEGORIES.PRICE -> "Price data retrieval or calculation error"
      [] category = ERROR_CATEGORIES.LIQUIDITY -> "Insufficient liquidity in pool"
      [] category = ERROR_CATEGORIES.GAS -> "Gas estimation or payment failure"
      [] category = ERROR_CATEGORIES.SLIPPAGE -> "Price slippage exceeded tolerance"
      [] category = ERROR_CATEGORIES.CONFIG -> "Configuration parameter error"
      [] category = ERROR_CATEGORIES.LOGIC -> "Code logic or data handling error"
      [] OTHER -> "Unidentified error"

\* AIAgent._generateRecommendations: the priority and action of each recommendation
\* record, in order
generateRecommendations(category) ==
    CASE category = ERROR_CATEGORIES.NETWORK ->
            <<[priority |-> "high", action |-> "Switch to backup RPC endpoint"],
              [priority |-> "medium", action |-> "Implement exponential backoff retry"]>>
      [] category = ERROR_CATEGORIES.CONTRACT ->
            <<[priority |-> "high", action |-> "Verify contract address and ABI"],
              [priority |-> "medium", action |-> "Add contract existence validation"]>>
      [] category = ERROR_CATEGORIES.PRICE ->
            <<[priority |-> "high", action |-> "Add sqrtPriceX96 validation"],
              [priority |-> "medium", action |-> "Implement price sanity checks"]>>
      [] category = ERROR_CATEGORIES.LIQUIDITY ->
            <<[priority |-> "high", action |-> "Check liquidity before trade analysis"],
              [priority |-> "medium", action |-> "Implement dynamic trade sizing"]>>
      [] category = ERROR_CATEGORIES.GAS ->
            <<[priority |-> "high", action |-> "Implement dynamic gas pricing"],
              [priority |-> "medium", action |-> "Add gas buffer margin"]>>
      [] category = ERROR_CATEGORIES.SLIPPAGE ->
            <<[priority |-> "high", action |-> "Adjust slippage tolerance dynamically"],
              [priority |-> "medium", action |-> "Implement trade splitting"]>>
      [] category = ERROR_CATEGORIES.CONFIG ->
            <<[priority |-> "critical", action |-> "Validate all configuration on startup"]>>
      [] category = ERROR_CATEGORIES.LOGIC ->
            <<[priority |-> "critical", action |-> "Add comprehensive null/undefined checks"],
              [priority |-> "high", action |-> "Implement input validation"]>>
      [] OTHER ->
            <<[priority |-> "medium", action |-> "Add detailed error logging"]>>

\* AIAgent._generateCodeChanges: the file and requiresAuth flag of each suggested change
generateCodeChanges(category) ==
    CASE category = ERROR_CATEGORIES.NETWORK -> <<[file |-> "src/priceFetcher.js", requiresAuth |-> TRUE]>>
      [] category = ERROR_CATEGORIES.PRICE -> <<[file |-> "src/priceFetcher.js", requiresAuth |-> TRUE]>>
      [] category = ERROR_CATEGORIES.LIQUIDITY -> <<[file |-> "src/arbitrage.js", requiresAuth |-> TRUE]>>
      [] category = ERROR_CATEGORIES.SLIPPAGE -> <<[file |-> "src/config.js", requiresAuth |-> TRUE]>>
      [] category = ERROR_CATEGORIES.GAS -> <<[file |-> "src/priceFetcher.js", requiresAuth |-> TRUE]>>
      [] OTHER -> <<>>

\* analyzeError hard-coding requiresAuth to true, as the code-change records do
diagnose_hardCodedAuth(error, context) ==
    LET category == categorizeError(error, context)
    IN  [timestamp |-> clock,
         errorMessage |-> IF error.message # <<>> THEN error.message ELSE strError,
         errorCode |-> error.code,
         category |-> category,
         severity |-> assessSeverity(error, context),
         rootCause |-> findRootCause(category),
         recommendations |-> generateRecommendations(category),
         codeChanges |-> generateCodeChanges(category),
         requiresAuth |-> TRUE]

\* the diagnosis object AIAgent.analyzeError builds and returns
diagnose(error, context) ==
    LET category == categorizeError(error, context)
    IN  [timestamp |-> clock,
         errorMessage |-> IF error.message # <<>> THEN error.message ELSE strError,
         errorCode |-> error.code,
         category |-> category,
         severity |-> assessSeverity(error, context),
         rootCause |-> findRootCause(category),
         recommendations |-> generateRecommendations(category),
         codeChanges |-> generateCodeChanges(category),
         requiresAuth |-> agentConfig.requireAuthForChanges]

\* _recordError evicting the newest entry (pop) instead of the oldest (shift)
recordError_popNewest(history, diagnosis) ==
    LET pushed == Append(history, [timestamp |-> diagnosis.timestamp,
                                   category |-> diagnosis.category,
                                   severity |-> diagnosis.severity,
                                   resolved |-> FALSE])
    IN  IF Len(pushed) > agentConfig.errorHistoryLimit
        THEN SubSeq(pushed, 1, Len(pushed) - 1)
        ELSE pushed

\* _recordError dropping the whole history but the new entry when over the limit
recordError_keepsNewestOnly(history, diagnosis) ==
    LET entry == [timestamp |-> diagnosis.timestamp,
                  category |-> diagnosis.category,
                  severity |-> diagnosis.severity,
                  resolved |-> FALSE]
    IN  IF Len(history) + 1 > agentConfig.errorHistoryLimit
        THEN SubSeq(<<entry>>, 1, IF agentConfig.errorHistoryLimit > 0 THEN 1 ELSE 0)
        ELSE Append(history, entry)

\* AIAgent._recordError: push the entry, then evict the oldest when over the limit
recordError(history, diagnosis) ==
    LET pushed == Append(history, [timestamp |-> diagnosis.timestamp,
                                   category |-> diagnosis.category,
                                   severity |-> diagnosis.severity,
                                   resolved |-> FALSE])
    IN  IF Len(pushed) > agentConfig.errorHistoryLimit THEN Tail(pushed) ELSE pushed

\* AIAgent.analyzeError: the state change; the value returned is diagnose(error, context)
analyzeError(error, context) ==
    /\ performanceMetrics' = [performanceMetrics EXCEPT !.totalAnalyses = @ + 1,
                                                        !.successfulDiagnoses = @ + 1]
    /\ errorHistory' = recordError(errorHistory, diagnose(error, context))
    /\ diagnosticResults' = Append(diagnosticResults, diagnose(error, context))
    /\ clock' = clock + 1

\* AIAgent._analyzeErrorPatterns: the counters optimizeTradingParameters reads
analyzeErrorPatterns ==
    [slippageErrors |-> Cardinality({i \in DOMAIN errorHistory : errorHistory[i].category = ERROR_CATEGORIES.SLIPPAGE}),
     liquidityErrors |-> Cardinality({i \in DOMAIN errorHistory : errorHistory[i].category = ERROR_CATEGORIES.LIQUIDITY}),
     lowProfitTrades |-> 0,
     totalErrors |-> Len(errorHistory)]

\* AIAgent.optimizeTradingParameters: the optimisation record it pushes and returns
\* (without its timestamp); recommendedParams is the set of parameter names it
\* proposes to change
optimizations ==
    LET errorPatterns == analyzeErrorPatterns
        recommendedParams ==
            (IF errorPatterns.slippageErrors > 2 THEN {"SLIPPAGE_TOLERANCE_PERCENT"} ELSE {})
            \cup (IF errorPatterns.lowProfitTrades > 5 THEN {"MIN_PRICE_DIFF_PERCENT"} ELSE {})
            \cup (IF errorPatterns.liquidityErrors > 3 THEN {"TRADE_SIZE_ETH"} ELSE {})
    IN  [recommendedParams |-> recommendedParams,
         hasCodeChange |-> recommendedParams # {}]

\* _assessSystemHealth with non-strict comparisons
assessSystemHealth_nonStrict ==
    LET total == performanceMetrics.totalAnalyses
        len == Len(errorHistory)
        healthStatus ==
            IF total > 0 /\ len * 100 >= 50 * total THEN "critical"
            ELSE IF total > 0 /\ len * 100 >= 30 * total THEN "degraded"
            ELSE IF total > 0 /\ len * 100 >= 10 * total THEN "warning"
            ELSE "healthy"
        healthScore ==
            IF total > 0 /\ len * 100 >= 50 * total THEN 20
            ELSE IF total > 0 /\ len * 100 >= 30 * total THEN 50
            ELSE IF total > 0 /\ len * 100 >= 10 * total THEN 75
            ELSE 100
    IN  [status |-> healthStatus,
         score |-> healthScore,
         recommendation |-> IF healthScore < 75
                            THEN "Review and implement pending recommendations"
                            ELSE "System operating normally"]

\* AIAgent._assessSystemHealth.  errorRate = length / totalAnalyses * 100 is a
\* double in the code; its comparisons with 50, 30 and 10 agree with the exact
\* rational comparisons used here for every totalAnalyses below 400.
assessSystemHealth ==
    LET total == performanceMetrics.totalAnalyses
        len == Len(errorHistory)
        healthStatus ==
            IF total > 0 /\ len * 100 > 50 * total THEN "critical"
            ELSE IF total > 0 /\ len * 100 > 30 * total THEN "degraded"
            ELSE IF total > 0 /\ len * 100 > 10 * total THEN "warning"
            ELSE "healthy"
        healthScore ==
            IF total > 0 /\ len * 100 > 50 * total THEN 20
            ELSE IF total > 0 /\ len * 100 > 30 * total THEN 50
            ELSE IF total > 0 /\ len * 100 > 10 * total THEN 75
            ELSE 100
    IN  [status |-> healthStatus,
         score |-> healthScore,
         recommendation |-> IF healthScore < 75
                            THEN "Review and implement pending recommendations"
                            ELSE "System operating normally"]

\* AIAgent.generateOptimizationReport: the fields of the report that depend on mutable state
generateOptimizationReport ==
    [performanceMetrics |-> performanceMetrics,
     errorAnalysis |-> analyzeErrorPatterns,
     recommendations |-> recommendations,
     pendingAuthorizations |->
         SelectSeq(pendingChanges,
                   LAMBDA c : ~\E i \in DOMAIN authorizedChanges : authorizedChanges[i] = c),
     systemHealth |-> assessSystemHealth]

\* the metrics of a new or reset agent
initialMetrics ==
    [totalAnalyses |-> 0, successfulDiagnoses |-> 0,
     recommendationsAccepted |-> 0, recommendationsRejected |-> 0]

-----------------------------------------------------------------------------
(* SmartErrorHandler *)

\* ERROR_HANDLER_CONFIG defaults
DefaultMaxRetries == 3
DefaultRetryDelayMs == 1000
\* AI_AGENT_CONFIG.errorHistoryLimit default
DefaultErrorHistoryLimit == 100

\* the two wrapped invocations followed on one handler
Calls == {"A", "B"}

\* retryDelayMs values a handler is configured with
RetryDelayChoices == {50, DefaultRetryDelayMs}

\* values a wrapped function resolves with
FnValues == {"success", "success after retry"}

\* contexts given to wrapAsync
WrapContexts == {[operation |-> ""], [operation |-> "price_fetch"]}

\* errors thrown by the wrapped functions of concurrent invocations
WrapErrors == {err.Network, err.Config}

\* errors thrown by the wrapped function of a single invocation
SoloErrors == {err.Network, err.Contract, err.Price, err.Liquidity, err.Gas, err.Slippage,
               err.Config, err.Logic, err.Unknown,
               [message |-> msg.UnknownTradingPair, code |-> ""]}

\* _isRetryable with Configuration among the retryable categories
isRetryable_withConfig(category) ==
    category \in {ERROR_CATEGORIES.NETWORK, ERROR_CATEGORIES.GAS, ERROR_CATEGORIES.PRICE, ERROR_CATEGORIES.CONFIG}

\* SmartErrorHandler._isRetryable
isRetryable(category) ==
    category \in {ERROR_CATEGORIES.NETWORK, ERROR_CATEGORIES.GAS, ERROR_CATEGORIES.PRICE}

\* Math.pow(2, n) for n >= 0
RECURSIVE pow2(_)
pow2(n) ==
    IF n = 0 THEN 1 ELSE 2 * pow2(n - 1)

\* _calculateDelay doubling from the first retry on
calculateDelay_noMinusOne(retryCount) ==
    IF handlerConfig.exponentialBackoff
    THEN handlerConfig.retryDelayMs * pow2(retryCount)
    ELSE handlerConfig.retryDelayMs

\* SmartErrorHandler._calculateDelay
calculateDelay(retryCount) ==
    IF handlerConfig.exponentialBackoff
    THEN handlerConfig.retryDelayMs * pow2(retryCount - 1)
    ELSE handlerConfig.retryDelayMs

\* SmartErrorHandler._enhanceError, reading the agent's diagnosticResults `results`
\* and recommendations `recs`; aiDiagnosis is <<>> when slice(-1)[0] is undefined
enhanceError(error, context, retryCount, results, recs) ==
    [message |-> error.message,
     originalError |-> error,
     context |-> context,
     retryCount |-> retryCount,
     aiDiagnosis |-> IF results = <<>> THEN <<>> ELSE <<results[Len(results)]>>,
     recommendations |-> recs]

\* SmartErrorHandler._logError: the entry pushed to errorLog
logEntry(error, context, retryCount) ==
    [message |-> error.message, code |-> error.code, context |-> context,
     retryCount |-> retryCount]

\* an invocation that has not started
idleInvocation ==
    [pc |-> "idle", context |-> [operation |-> ""], retries |-> 0, lastError |-> NoError,
     diagnosis |-> <<>>, fnCalls |-> 0, fnValue |-> "", delays |-> <<>>,
     result |-> "", thrown |-> <<>>]

\* wrapAsync(fn, context)(...args): lastError = null, retries = 0, the loop
\* condition holds (maxRetries >= 0) and fn is called; the invocation awaits it
Invoke(c, context) ==
    /\ inv[c].pc = "idle"
    /\ inv' = [inv EXCEPT ![c] = [@ EXCEPT !.pc = "attempting", !.context = context,
                                           !.fnCalls = 1]]
    /\ UNCHANGED <<handlerConfig, tradingConfig, mon, errorLog, agentVars, probe, lastReport, norm, arb>>

\* the wrapped function awaiting fn without returning its value
FnResolves_dropsValue(c, value) ==
    /\ inv[c].pc = "attempting"
    /\ inv' = [inv EXCEPT ![c] = [@ EXCEPT !.pc = "returned", !.fnValue = value]]
    /\ UNCHANGED <<handlerConfig, tradingConfig, mon, errorLog, agentVars, probe, lastReport, pipelineVars>>

\* fn resolves with value: the wrapped function returns it
FnResolves(c, value) ==
    /\ inv[c].pc = "attempting"
    /\ inv' = [inv EXCEPT ![c] = [@ EXCEPT !.pc = "returned", !.fnValue = value,
                                           !.result = value]]
    /\ UNCHANGED <<handlerConfig, tradingConfig, mon, errorLog, agentVars, probe, lastReport, pipelineVars>>

\* fn rejects with error: the catch block of wrapAsync up to its first await,
\* or up to the throw after the loop when nothing is awaited
FnRejects(c, error) ==
    /\ inv[c].pc = "attempting"
    /\ LET retries == inv[c].retries + 1
           context == inv[c].context
           caught == [inv[c] EXCEPT !.lastError = error, !.retries = retries]
       IN  /\ errorLog' = Append(errorLog, logEntry(error, context, retries))
           /\ IF handlerConfig.useAIAgent
              THEN /\ analyzeError(error, context)
                   /\ IF ~isRetryable(diagnose(error, context).category)
                      THEN \* break, then throw after the loop
                           inv' = [inv EXCEPT ![c] =
                               [caught EXCEPT !.pc = "thrown",
                                              !.diagnosis = <<diagnose(error, context)>>,
                                              !.thrown = <<enhanceError(error, context, retries,
                                                              diagnosticResults', recommendations)>>]]
                      ELSE \* await this._applyImmediateFixes(diagnosis)
                           inv' = [inv EXCEPT ![c] =
                               [caught EXCEPT !.pc = "fixes",
                                              !.diagnosis = <<diagnose(error, context)>>]]
              ELSE /\ UNCHANGED <<errorHistory, diagnosticResults, performanceMetrics, clock>>
                   /\ IF retries <= handlerConfig.maxRetries
                      THEN \* await the delay
                           inv' = [inv EXCEPT ![c] =
                               [caught EXCEPT !.pc = "delaying",
                                              !.delays = Append(@, calculateDelay(retries))]]
                      ELSE \* the loop condition fails: throw
                           inv' = [inv EXCEPT ![c] =
                               [caught EXCEPT !.pc = "thrown",
                                              !.thrown = <<enhanceError(error, context, retries,
                                                              diagnosticResults, recommendations)>>]]
    /\ UNCHANGED <<handlerConfig, tradingConfig, mon, agentConfig, recommendations, authVars, probe, lastReport,
                   pipelineVars>>

\* the retry check after _applyImmediateFixes letting one attempt too many wait
FixesApplied_extraDelay(c) ==
    /\ inv[c].pc = "fixes"
    /\ IF inv[c].retries <= handlerConfig.maxRetries + 1
       THEN inv' = [inv EXCEPT ![c] =
                [@ EXCEPT !.pc = "delaying",
                          !.delays = Append(@, calculateDelay(inv[c].retries))]]
       ELSE inv' = [inv EXCEPT ![c] =
                [@ EXCEPT !.pc = "thrown",
                          !.thrown = <<enhanceError(inv[c].lastError, inv[c].context,
                                          inv[c].retries, diagnosticResults, recommendations)>>]]
    /\ UNCHANGED <<handlerConfig, tradingConfig, mon, errorLog, agentVars, probe, lastReport, pipelineVars>>

\* the retry check after _applyImmediateFixes with < in place of <=
FixesApplied_offByOne(c) ==
    /\ inv[c].pc = "fixes"
    /\ IF inv[c].retries < handlerConfig.maxRetries
       THEN inv' = [inv EXCEPT ![c] =
                [@ EXCEPT !.pc = "delaying",
                          !.delays = Append(@, calculateDelay(inv[c].retries))]]
       ELSE inv' = [inv EXCEPT ![c] =
                [@ EXCEPT !.pc = "thrown",
                          !.thrown = <<enhanceError(inv[c].lastError, inv[c].context,
                                          inv[c].retries, diagnosticResults, recommendations)>>]]
    /\ UNCHANGED <<handlerConfig, tradingConfig, mon, errorLog, agentVars, probe, lastReport, pipelineVars>>

\* _applyImmediateFixes has resolved: wait before the retry, or leave the loop and throw
FixesApplied(c) ==
    /\ inv[c].pc = "fixes"
    /\ IF inv[c].retries <= handlerConfig.maxRetries
       THEN inv' = [inv EXCEPT ![c] =
                [@ EXCEPT !.pc = "delaying",
                          !.delays = Append(@, calculateDelay(inv[c].retries))]]
       ELSE inv' = [inv EXCEPT ![c] =
                [@ EXCEPT !.pc = "thrown",
                          !.thrown = <<enhanceError(inv[c].lastError, inv[c].context,
                                          inv[c].retries, diagnosticResults, recommendations)>>]]
    /\ UNCHANGED <<handlerConfig, tradingConfig, mon, errorLog, agentVars, probe, lastReport, pipelineVars>>

\* one timer for the handler: when the delay elapses every waiting invocation
\* resumes, and the attempt is counted against all of them
DelayElapsed_sharedTimer(c) ==
    /\ inv[c].pc = "delaying"
    /\ inv[c].retries <= handlerConfig.maxRetries
    /\ inv' = [d \in Calls |->
                  IF inv[d].pc = "delaying"
                  THEN [inv[d] EXCEPT !.pc = "attempting", !.fnCalls = @ + 1]
                  ELSE inv[d]]
    /\ UNCHANGED <<handlerConfig, tradingConfig, mon, errorLog, agentVars, probe, lastReport, norm, arb>>

\* the delay has elapsed: the loop condition holds again and fn is called
DelayElapsed(c) ==
    /\ inv[c].pc = "delaying"
    /\ inv[c].retries <= handlerConfig.maxRetries
    /\ inv' = [inv EXCEPT ![c] = [@ EXCEPT !.pc = "attempting", !.fnCalls = @ + 1]]
    /\ UNCHANGED <<handlerConfig, tradingConfig, mon, errorLog, agentVars, probe, lastReport, norm, arb>>

\* optimizeTradingParameters writing the slippage it recommends (0.75 for the
\* default 0.5, else the cap of 2) to ARBITRAGE_CONFIG instead of only
\* proposing it
OptimizeTradingParameters_appliesChanges ==
    /\ Len(recommendations) < MaxOptimizations
    /\ recommendations' = Append(recommendations, optimizations)
    /\ tradingConfig' =
           IF "SLIPPAGE_TOLERANCE_PERCENT" \in optimizations.recommendedParams
           THEN [tradingConfig EXCEPT !.ARBITRAGE_CONFIG.SLIPPAGE_TOLERANCE_PERCENT =
                    IF @ = [num |-> 1, den |-> 2] THEN [num |-> 3, den |-> 4]
                    ELSE [num |-> 2, den |-> 1]]
           ELSE tradingConfig
    /\ UNCHANGED <<handlerVars, mon, pipelineVars, agentConfig, errorHistory, diagnosticResults,
                   performanceMetrics, authVars, clock, probe, lastReport>>

\* AIAgent.optimizeTradingParameters
OptimizeTradingParameters ==
    /\ Len(recommendations) < MaxOptimizations
    /\ recommendations' = Append(recommendations, optimizations)
    /\ UNCHANGED <<handlerVars, tradingConfig, mon, pipelineVars, agentConfig, errorHistory, diagnosticResults,
                   performanceMetrics, authVars, clock, probe, lastReport>>

\* AIAgent.generateOptimizationReport
GenerateOptimizationReport ==
    /\ lastReport' = <<generateOptimizationReport>>
    /\ UNCHANGED <<handlerVars, tradingConfig, mon, pipelineVars, agentVars, probe>>

\* a reset that clears the collections and leaves the metrics as they are
Reset_keepsMetrics ==
    /\ errorHistory' = <<>>
    /\ recommendations' = <<>>
    /\ diagnosticResults' = <<>>
    /\ pendingChanges' = <<>>
    /\ authorizedChanges' = <<>>
    /\ UNCHANGED <<handlerVars, tradingConfig, mon, pipelineVars, agentConfig, performanceMetrics, auth, clock,
                   probe, lastReport>>

\* AIAgent.reset
Reset ==
    /\ errorHistory' = <<>>
    /\ recommendations' = <<>>
    /\ diagnosticResults' = <<>>
    /\ performanceMetrics' = initialMetrics
    /\ pendingChanges' = <<>>
    /\ authorizedChanges' = <<>>
    /\ UNCHANGED <<handlerVars, tradingConfig, mon, pipelineVars, agentConfig, auth, clock, probe, lastReport>>

\* AIAgent.analyzeError called directly on the agent
AnalyzeError(error, context) ==
    /\ clock < MaxAnalyses
    /\ analyzeError(error, context)
    /\ UNCHANGED <<handlerVars, tradingConfig, mon, pipelineVars, agentConfig, recommendations, authVars, probe,
                   lastReport>>

\* AIAgent.analyzeError called once on the probed (error, context) pair
AnalyzeProbe ==
    /\ probe.diagnosis = <<>>
    /\ analyzeError(probe.error, probe.context)
    /\ probe' = [probe EXCEPT !.diagnosis = <<diagnose(probe.error, probe.context)>>]
    /\ UNCHANGED <<handlerVars, tradingConfig, mon, pipelineVars, agentConfig, recommendations, authVars,
                   lastReport>>

\* AIAgent._assessChangeImpact
assessChangeImpact(change) ==
    [riskLevel |-> IF change.changeType = "modification" THEN "medium" ELSE "low",
     affectedComponents |-> <<change.file>>,
     testingRequired |-> TRUE,
     rollbackPossible |-> TRUE,
     estimatedEffort |-> "low"]

\* the requestAuthorization calls followed on one agent, the changes they
\* propose, the authCallback argument (a function or left out), the random
\* part of a request id, and the values an authCallback resolves with
\* (authorized is <<>> when the value has no such property)
AuthorizationArguments ==
    [requests |-> {"R1", "R2"},
     changes |-> [file : {"src/test.js"}, description : {"Test change"},
                  changeType : {"modification", "enhancement"}],
     callbacks |-> {"undefined", "function"},
     random |-> {"4fzzzx", "9ix6b"},
     results |-> {[authorized |-> <<TRUE>>, reason |-> "Approved"],
                  [authorized |-> <<FALSE>>, reason |-> "Rejected"],
                  [authorized |-> <<>>, reason |-> "No decision"]}]

\* a requestAuthorization call that has not started
idleRequest ==
    [pc |-> "idle", change |-> <<>>, authCallback |-> "undefined", authRequest |-> <<>>,
     result |-> <<>>]

\* requestAuthorization(change, authCallback) up to its await, or up to its
\* return when nothing is awaited
RequestAuthorization(r, change, authCallback, random) ==
    /\ auth[r].pc = "idle"
    /\ IF ~agentConfig.requireAuthForChanges
       THEN /\ auth' = [auth EXCEPT ![r] =
                   [@ EXCEPT !.pc = "returned", !.change = <<change>>,
                             !.authCallback = authCallback,
                             !.result = <<[authorized |-> <<TRUE>>,
                                           reason |-> "Auto-approved (auth disabled)"]>>]]
            /\ UNCHANGED <<pendingChanges, clock>>
       ELSE LET authRequest ==
                    [id |-> <<"AUTH", clock, random>>,
                     timestamp |-> clock,
                     changeType |-> change.changeType,
                     file |-> change.file,
                     description |-> change.description,
                     impactAssessment |-> assessChangeImpact(change),
                     requiresReview |-> TRUE]
            IN  /\ pendingChanges' = Append(pendingChanges, authRequest)
                /\ clock' = clock + 1
                /\ IF authCallback = "function"
                   THEN \* await authCallback(authRequest)
                        auth' = [auth EXCEPT ![r] =
                            [@ EXCEPT !.pc = "awaiting", !.change = <<change>>,
                                      !.authCallback = authCallback,
                                      !.authRequest = <<authRequest>>]]
                   ELSE auth' = [auth EXCEPT ![r] =
                            [@ EXCEPT !.pc = "returned", !.change = <<change>>,
                                      !.authCallback = authCallback,
                                      !.authRequest = <<authRequest>>,
                                      !.result =
                                          <<[authorized |-> <<FALSE>>,
                                             pending |-> TRUE,
                                             authRequestId |-> authRequest.id,
                                             message |-> "Authorization pending - please review and approve"]>>]]
    /\ UNCHANGED <<handlerVars, tradingConfig, mon, pipelineVars, agentConfig, errorHistory, diagnosticResults,
                   recommendations, performanceMetrics, authorizedChanges, probe, lastReport>>

\* the callback's value tested for presence only (if (result)): any value it
\* resolves with records the change as authorized
CallbackResolves_anyResult(r, result) ==
    /\ auth[r].pc = "awaiting"
    /\ authorizedChanges' = Append(authorizedChanges, auth[r].authRequest[1])
    /\ performanceMetrics' = [performanceMetrics EXCEPT !.recommendationsAccepted = @ + 1]
    /\ auth' = [auth EXCEPT ![r] = [@ EXCEPT !.pc = "returned", !.result = <<result>>]]
    /\ UNCHANGED <<handlerVars, tradingConfig, mon, pipelineVars, agentConfig, errorHistory, diagnosticResults,
                   recommendations, pendingChanges, clock, probe, lastReport>>

\* the authCallback of call r resolves with result: the change is recorded as
\* authorized or counted as rejected, and result is returned
CallbackResolves(r, result) ==
    /\ auth[r].pc = "awaiting"
    /\ IF result.authorized = <<TRUE>>
       THEN /\ authorizedChanges' = Append(authorizedChanges, auth[r].authRequest[1])
            /\ performanceMetrics' = [performanceMetrics EXCEPT !.recommendationsAccepted = @ + 1]
       ELSE /\ performanceMetrics' = [performanceMetrics EXCEPT !.recommendationsRejected = @ + 1]
            /\ UNCHANGED authorizedChanges
    /\ auth' = [auth EXCEPT ![r] = [@ EXCEPT !.pc = "returned", !.result = <<result>>]]
    /\ UNCHANGED <<handlerVars, tradingConfig, mon, pipelineVars, agentConfig, errorHistory, diagnosticResults,
                   recommendations, pendingChanges, clock, probe, lastReport>>

\* the authCallback of call r throws or rejects: requestAuthorization rejects
\* with its error, the request stays in pendingChanges
CallbackRejects(r) ==
    /\ auth[r].pc = "awaiting"
    /\ auth' = [auth EXCEPT ![r] = [@ EXCEPT !.pc = "rejected"]]
    /\ UNCHANGED <<handlerVars, tradingConfig, mon, pipelineVars, agentConfig, errorHistory, diagnosticResults,
                   recommendations, performanceMetrics, pendingChanges, authorizedChanges,
                   clock, probe, lastReport>>

-----------------------------------------------------------------------------
(* Price fetcher *)

\* JavaScript values a sqrtPriceX96 argument can hold: null, undefined and bigints
jsNull ==
    [type |-> "null", value |-> 0]
jsUndefined ==
    [type |-> "undefined", value |-> 0]
bigint(n) ==
    [type |-> "bigint", value |-> n]

\* JavaScript Numbers.  A finite Number is the exact value
\* (num / den) * 10^exp10 * 2^exp2, with den > 0 and zero kept in one form;
\* the rounding of floating point is not represented.
Zero ==
    [kind |-> "finite", num |-> 0, den |-> 1, exp10 |-> 0, exp2 |-> 0]
One ==
    [kind |-> "finite", num |-> 1, den |-> 1, exp10 |-> 0, exp2 |-> 0]
Infinity ==
    [kind |-> "Infinity", num |-> 1, den |-> 0, exp10 |-> 0, exp2 |-> 0]
NaN ==
    [kind |-> "NaN", num |-> 0, den |-> 0, exp10 |-> 0, exp2 |-> 0]

finite(num, den, exp10, exp2) ==
    IF num = 0 THEN Zero
    ELSE [kind |-> "finite", num |-> num, den |-> den, exp10 |-> exp10, exp2 |-> exp2]

\* Number(x) for a bigint, null or undefined
toNumber(x) ==
    CASE x.type = "bigint" -> finite(x.value, 1, 0, 0)
      [] x.type = "null" -> Zero
      [] OTHER -> NaN

\* a * b on non-negative Numbers
multiply(a, b) ==
    CASE a.kind = "NaN" \/ b.kind = "NaN" -> NaN
      [] a.kind = "Infinity" -> IF b = Zero THEN NaN ELSE Infinity
      [] b.kind = "Infinity" -> IF a = Zero THEN NaN ELSE Infinity
      [] OTHER -> finite(a.num * b.num, a.den * b.den, a.exp10 + b.exp10, a.exp2 + b.exp2)

\* a / b on non-negative Numbers
divide(a, b) ==
    CASE a.kind = "NaN" \/ b.kind = "NaN" -> NaN
      [] a.kind = "Infinity" -> IF b.kind = "Infinity" THEN NaN ELSE Infinity
      [] b.kind = "Infinity" -> Zero
      [] b = Zero -> IF a = Zero THEN NaN ELSE Infinity
      [] OTHER -> finite(a.num * b.den, a.den * b.num, a.exp10 - b.exp10, a.exp2 - b.exp2)

\* Number(2n ** 96n)
Q96 ==
    [kind |-> "finite", num |-> 1, den |-> 1, exp10 |-> 0, exp2 |-> 96]

\* 10 ** e
pow10(e) ==
    [kind |-> "finite", num |-> 1, den |-> 1, exp10 |-> e, exp2 |-> 0]

\* sqrtPriceX96ToPrice without the validation of its argument
sqrtPriceX96ToPrice_noValidation(sqrtPriceX96, token0Decimals, token1Decimals) ==
    LET sqrtPrice == divide(toNumber(sqrtPriceX96), Q96)
        price == multiply(sqrtPrice, sqrtPrice)
        decimalAdjustment == pow10(token0Decimals - token1Decimals)
    IN  multiply(price, decimalAdjustment)

\* sqrtPriceX96ToPrice: 0 for null, undefined and 0n, else
\* (sqrtPriceX96 / 2^96)^2 * 10^(token0Decimals - token1Decimals)
sqrtPriceX96ToPrice(sqrtPriceX96, token0Decimals, token1Decimals) ==
    IF \/ sqrtPriceX96.type = "null"
       \/ sqrtPriceX96.type = "undefined"
       \/ (sqrtPriceX96.type = "bigint" /\ sqrtPriceX96.value = 0)
    THEN Zero
    ELSE LET sqrtPrice == divide(toNumber(sqrtPriceX96), Q96)
             price == multiply(sqrtPrice, sqrtPrice)
             decimalAdjustment == pow10(token0Decimals - token1Decimals)
         IN  multiply(price, decimalAdjustment)

\* sqrtPriceX96ToInversePrice: 1 / price
sqrtPriceX96ToInversePrice(sqrtPriceX96, token0Decimals, token1Decimals) ==
    LET price == sqrtPriceX96ToPrice(sqrtPriceX96, token0Decimals, token1Decimals)
    IN  divide(One, price)

\* the sqrtPriceX96 arguments and decimals a direct call is followed for
SqrtPriceArguments ==
    {jsNull, jsUndefined} \cup {bigint(n) : n \in 0..MaxSqrtPriceX96}
DecimalsArguments ==
    {0, 6, 18}

\* a direct call sqrtPriceX96ToPrice(sqrtPriceX96, token0Decimals, token1Decimals)
ToPrice ==
    /\ norm # <<>>
    /\ norm[1].price = <<>>
    /\ norm' = <<[norm[1] EXCEPT !.price =
                     <<sqrtPriceX96ToPrice(norm[1].sqrtPriceX96, norm[1].token0Decimals,
                                           norm[1].token1Decimals)>>]>>
    /\ UNCHANGED <<handlerVars, tradingConfig, mon, agentVars, probe, lastReport, fetch, arb>>

\* a direct call sqrtPriceX96ToInversePrice(sqrtPriceX96, token0Decimals, token1Decimals)
ToInversePrice ==
    /\ norm # <<>>
    /\ norm[1].inverse = <<>>
    /\ norm' = <<[norm[1] EXCEPT !.inverse =
                     <<sqrtPriceX96ToInversePrice(norm[1].sqrtPriceX96, norm[1].token0Decimals,
                                                  norm[1].token1Decimals)>>]>>
    /\ UNCHANGED <<handlerVars, tradingConfig, mon, agentVars, probe, lastReport, fetch, arb>>

\* BigInt.prototype.toString on the non-negative values followed
RECURSIVE toString(_)
toString(n) ==
    LET digits == <<"0", "1", "2", "3", "4", "5", "6", "7", "8", "9">>
    IN  IF n < 10 THEN digits[n + 1] ELSE toString(n \div 10) \o digits[(n % 10) + 1]

\* trading pair names and token symbols, as sequences of characters
pairName ==
    [WETH_USDC |-> <<"W","E","T","H","/","U","S","D","C">>,
     WETH_USDbC |-> <<"W","E","T","H","/","U","S","D","b","C">>,
     WETH_DAI |-> <<"W","E","T","H","/","D","A","I">>]
symbol ==
    [WETH |-> <<"W","E","T","H">>,
     USDC |-> <<"U","S","D","C">>,
     USDbC |-> <<"U","S","D","b","C">>,
     DAI |-> <<"D","A","I">>]

\* the pairs a fetch is requested for: the two configured ones and one that is not
Pairs ==
    {pairName.WETH_USDC, pairName.WETH_USDbC, pairName.WETH_DAI}

\* TOKENS: the decimals of each token
TOKENS ==
    [sym \in {symbol.WETH, symbol.USDC, symbol.USDbC, symbol.DAI} |->
        [decimals |-> IF sym \in {symbol.WETH, symbol.DAI} THEN 18 ELSE 6]]

\* the pool keys of fetchPricesMultipleDEXes, in the order it pushes their fetches
SourceKeys ==
    <<"UNISWAP_V3", "AERODROME_CL">>
SourceSet ==
    {SourceKeys[i] : i \in 1..Len(SourceKeys)}

\* the dex label each fetch function puts on its entry
dexName ==
    [s \in SourceSet |-> IF s = "UNISWAP_V3" THEN "Uniswap V3" ELSE "Aerodrome CL"]

\* POOLS: the pools configured for each pair
POOLS ==
    [pair \in {pairName.WETH_USDC, pairName.WETH_USDbC} |->
        IF pair = pairName.WETH_USDC
        THEN [UNISWAP_V3 |-> [address |-> "0xd0b53D9277642d899DF5C87A3966A349A798F224"],
              AERODROME_CL |-> [address |-> "0xb2cc224c1c9feE385f8ad6a55b4d94E92359DC59"]]
        ELSE [UNISWAP_V3 |-> [address |-> "0x4C36388bE6F416A29C8d8Eee81C771cE6bE14B18"],
              AERODROME_CL |-> [address |-> "0xBb5DFE1380333CEE4C2EeBd7202c80dE2256AdF4"]]]

\* String.prototype.split("/"): the segments between the separators
RECURSIVE split(_)
split(str) ==
    IF \A i \in 1..Len(str) : str[i] # "/"
    THEN <<str>>
    ELSE LET first == CHOOSE i \in 1..Len(str) :
                          str[i] = "/" /\ \A j \in 1..(i - 1) : str[j] # "/"
         IN  <<SubSeq(str, 1, first - 1)>> \o split(SubSeq(str, first + 1, Len(str)))

\* TOKENS[symbol]?.decimals ?? fallback, for the i-th segment of the pair
decimalsOf(segments, i, fallback) ==
    IF i <= Len(segments) /\ segments[i] \in DOMAIN TOKENS
    THEN TOKENS[segments[i]].decimals
    ELSE fallback

\* `Unknown trading pair: ${pair}`
strUnknownTradingPair ==
    <<"U","n","k","n","o","w","n"," ","t","r","a","d","i","n","g"," ","p","a","i","r",":"," ">>
unknownTradingPair(pair) ==
    [message |-> strUnknownTradingPair \o pair, code |-> ""]

\* a contract read: not issued, pending, resolved with a value or rejected with a message
noRead ==
    [status |-> "none", value |-> <<>>, message |-> <<>>]
pendingRead ==
    [status |-> "pending", value |-> <<>>, message |-> <<>>]

\* what a pending slot0() or liquidity() read can settle to
Slot0Outcomes ==
    {[status |-> "ok", value |-> <<[sqrtPriceX96 |-> n, tick |-> n - 1]>>, message |-> <<>>] :
        n \in {0, MaxSqrtPriceX96}}
    \cup {[status |-> "failed", value |-> <<>>, message |-> msg.NetworkTimeout]}
LiquidityOutcomes ==
    {[status |-> "ok", value |-> <<MaxSqrtPriceX96 + 10>>, message |-> <<>>],
     [status |-> "failed", value |-> <<>>, message |-> msg.ExecutionReverted]}
ReadNames ==
    {"slot0", "liquidity"}
ReadOutcomes(r) ==
    IF r = "slot0" THEN Slot0Outcomes ELSE LiquidityOutcomes

\* no fetchPricesMultipleDEXes call made yet
idleFetch ==
    [pair |-> <<>>, state |-> "idle",
     starts |-> [s \in SourceSet |-> 0],
     reads |-> [s \in SourceSet |-> [slot0 |-> noRead, liquidity |-> noRead]],
     token0Decimals |-> 0, token1Decimals |-> 0,
     outcome |-> [s \in SourceSet |-> <<>>],
     result |-> <<>>, error |-> NoError]

\* the object fetchUniswapV3Price / fetchAerodromeCLPrice returns
priceEntry(s, pair, slot0Data, liquidity, token0Decimals, token1Decimals) ==
    [dex |-> dexName[s],
     poolAddress |-> POOLS[pair][s].address,
     sqrtPriceX96 |-> toString(slot0Data.sqrtPriceX96),
     tick |-> slot0Data.tick,
     liquidity |-> toString(liquidity),
     priceToken0InToken1 |->
         sqrtPriceX96ToPrice(bigint(slot0Data.sqrtPriceX96), token0Decimals, token1Decimals),
     priceToken1InToken0 |->
         sqrtPriceX96ToInversePrice(bigint(slot0Data.sqrtPriceX96), token0Decimals, token1Decimals),
     timestamp |-> clock]

\* the catch handler of one pool copied to the other with its label unchanged
failureEntry_wrongDex(s, message) ==
    [dex |-> dexName["UNISWAP_V3"], error |-> message]

\* .catch(err => ({ dex, error: err.message }))
failureEntry(s, message) ==
    [dex |-> dexName[s], error |-> message]

\* fetchPricesMultipleDEXes(provider, pair) up to its await: throw for an
\* unconfigured pair, else start the fetch of every configured pool, each
\* issuing its slot0 and liquidity reads at once
callFetch ==
    LET pair == fetch.pair
        segments == split(pair)
    IN  IF pair \notin DOMAIN POOLS
        THEN fetch' = [fetch EXCEPT !.state = "rejected", !.error = unknownTradingPair(pair)]
        ELSE fetch' = [fetch EXCEPT
                 !.state = "pending",
                 !.token0Decimals = decimalsOf(segments, 1, 18),
                 !.token1Decimals = decimalsOf(segments, 2, 6),
                 !.starts = [s \in SourceSet |->
                                IF s \in DOMAIN POOLS[pair] THEN @[s] + 1 ELSE @[s]],
                 !.reads = [s \in SourceSet |->
                                IF s \in DOMAIN POOLS[pair]
                                THEN [slot0 |-> pendingRead, liquidity |-> pendingRead]
                                ELSE [slot0 |-> noRead, liquidity |-> noRead]],
                 !.outcome = [s \in SourceSet |-> <<>>],
                 !.result = <<>>,
                 !.error = NoError]

\* a pool fetch pushed without its catch handler: its rejection rejects the
\* Promise.all of the batch
ReadSettles_noCatch(s, r, settled) ==
    /\ fetch.state \in {"pending", "resolved"}
    /\ fetch.reads[s][r].status = "pending"
    /\ LET reads == [fetch.reads[s] EXCEPT ![r] = settled]
           outcome ==
               IF fetch.outcome[s] # <<>> THEN fetch.outcome[s]
               ELSE IF settled.status = "failed"
                    THEN <<failureEntry(s, settled.message)>>
                    ELSE IF reads.slot0.status = "ok" /\ reads.liquidity.status = "ok"
                         THEN <<priceEntry(s, fetch.pair, reads.slot0.value[1],
                                           reads.liquidity.value[1],
                                           fetch.token0Decimals, fetch.token1Decimals)>>
                         ELSE <<>>
       IN  IF settled.status = "failed" /\ fetch.outcome[s] = <<>> /\ fetch.state = "pending"
           THEN fetch' = [fetch EXCEPT !.reads[s] = reads, !.outcome[s] = outcome,
                                       !.state = "rejected",
                                       !.error = [message |-> settled.message, code |-> ""]]
           ELSE fetch' = [fetch EXCEPT !.reads[s] = reads, !.outcome[s] = outcome]
    /\ UNCHANGED <<handlerVars, tradingConfig, mon, agentVars, probe, lastReport, norm, arb>>

\* a read of pool s settles; the Promise.all of the pool's two reads rejects
\* on the first rejection and resolves when both have resolved, which settles
\* the pool's promise to a failure entry or to a price entry
ReadSettles(s, r, settled) ==
    /\ fetch.state \in {"pending", "resolved"}
    /\ fetch.reads[s][r].status = "pending"
    /\ LET reads == [fetch.reads[s] EXCEPT ![r] = settled]
           outcome ==
               IF fetch.outcome[s] # <<>> THEN fetch.outcome[s]
               ELSE IF settled.status = "failed"
                    THEN <<failureEntry(s, settled.message)>>
                    ELSE IF reads.slot0.status = "ok" /\ reads.liquidity.status = "ok"
                         THEN <<priceEntry(s, fetch.pair, reads.slot0.value[1],
                                           reads.liquidity.value[1],
                                           fetch.token0Decimals, fetch.token1Decimals)>>
                         ELSE <<>>
       IN  fetch' = [fetch EXCEPT !.reads[s] = reads, !.outcome[s] = outcome]
    /\ UNCHANGED <<handlerVars, tradingConfig, mon, agentVars, probe, lastReport, norm, arb>>

\* the entries of the configured pools, in the order their fetches were pushed
RECURSIVE pricePromises(_, _)
pricePromises(pair, i) ==
    IF i > Len(SourceKeys) THEN <<>>
    ELSE IF SourceKeys[i] \in DOMAIN POOLS[pair]
         THEN <<SourceKeys[i]>> \o pricePromises(pair, i + 1)
         ELSE pricePromises(pair, i + 1)

\* Promise.all(pricePromises) resolving on the first settled pool promise
PromiseAllResolves_onFirst ==
    /\ fetch.state = "pending"
    /\ \E s \in SourceSet : fetch.outcome[s] # <<>>
    /\ LET pushed == pricePromises(fetch.pair, 1)
           settled == SelectSeq(pushed, LAMBDA s : fetch.outcome[s] # <<>>)
           segments == split(fetch.pair)
       IN  fetch' = [fetch EXCEPT
                 !.state = "resolved",
                 !.result = <<[pair |-> fetch.pair, token0 |-> segments[1], token1 |-> segments[2],
                               prices |-> [i \in 1..Len(settled) |-> fetch.outcome[settled[i]][1]]]>>]
    /\ UNCHANGED <<handlerVars, tradingConfig, mon, agentVars, probe, lastReport, norm, arb>>

\* Promise.all(pricePromises) resolves once every pushed promise has settled;
\* fetchPricesMultipleDEXes returns the batch
PromiseAllResolves ==
    /\ fetch.state = "pending"
    /\ \A s \in DOMAIN POOLS[fetch.pair] : fetch.outcome[s] # <<>>
    /\ LET pushed == pricePromises(fetch.pair, 1)
           segments == split(fetch.pair)
       IN  fetch' = [fetch EXCEPT
                 !.state = "resolved",
                 !.result = <<[pair |-> fetch.pair, token0 |-> segments[1], token1 |-> segments[2],
                               prices |-> [i \in 1..Len(pushed) |-> fetch.outcome[pushed[i]][1]]]>>]
    /\ UNCHANGED <<handlerVars, tradingConfig, mon, agentVars, probe, lastReport, norm, arb>>

\* the context main wraps the price fetch with
priceFetchContext ==
    [operation |-> "price_fetch"]

\* wrappedFetchPrices(provider): the wrapper calls fn, which calls fetchPricesMultipleDEXes
CallWrappedFetch ==
    /\ Invoke("A", priceFetchContext)
    /\ callFetch

\* the batch has resolved: await fn returns it from the wrapped function
WrappedFetchResolves ==
    /\ fetch.state = "resolved"
    /\ FnResolves("A", fetch.result[1])

\* fetchPricesMultipleDEXes has thrown: the catch block of the wrapper runs
WrappedFetchRejects ==
    /\ fetch.state = "rejected"
    /\ FnRejects("A", fetch.error)

\* the backoff delay has elapsed: the wrapper calls fn again
RetryWrappedFetch ==
    /\ DelayElapsed("A")
    /\ callFetch

-----------------------------------------------------------------------------
(* Arbitrage calculator *)

\* The Numbers of the calculator are exact rationals [num, den] in lowest
\* terms with den > 0; the rounding of floating point is not represented.
RECURSIVE gcd(_, _)
gcd(a, b) ==
    IF b = 0 THEN a ELSE gcd(b, a % b)

rat(num, den) ==
    LET n == IF den < 0 THEN 0 - num ELSE num
        d == IF den < 0 THEN 0 - den ELSE den
        g == gcd(IF n < 0 THEN 0 - n ELSE n, d)
    IN  [num |-> n \div g, den |-> d \div g]

rSum(a, b) == rat(a.num * b.den + b.num * a.den, a.den * b.den)
rDiff(a, b) == rat(a.num * b.den - b.num * a.den, a.den * b.den)
rProd(a, b) == rat(a.num * b.num, a.den * b.den)
rQuot(a, b) == rat(a.num * b.den, a.den * b.num)
rLess(a, b) == a.num * b.den < b.num * a.den

\* Number.prototype.toFixed(4): the value rounded to a whole number of 1/10000
toFixed4(a) ==
    LET scaled == 2 * 10000 * (IF a.num < 0 THEN 0 - a.num ELSE a.num) + a.den
        rounded == scaled \div (2 * a.den)
    IN  IF a.num < 0 THEN 0 - rounded ELSE rounded

\* ARBITRAGE_CONFIG with no slippage tolerance
ARBITRAGE_CONFIG_noSlippage ==
    [MIN_PRICE_DIFF_PERCENT |-> rat(1, 10),
     TRADE_SIZE_ETH |-> rat(1, 1),
     SLIPPAGE_TOLERANCE_PERCENT |-> rat(0, 1)]

\* ARBITRAGE_CONFIG and the threshold of GAS_CONFIG
ARBITRAGE_CONFIG ==
    [MIN_PRICE_DIFF_PERCENT |-> rat(1, 10),
     TRADE_SIZE_ETH |-> rat(1, 1),
     SLIPPAGE_TOLERANCE_PERCENT |-> rat(1, 2)]
GAS_CONFIG ==
    [MIN_PROFIT_THRESHOLD_USD |-> rat(1, 1)]

\* calculatePriceDifference taking the difference relative to its first argument
calculatePriceDifference_relativeToFirst(price1, price2) ==
    IF price1.num = 0 \/ price2.num = 0
    THEN rat(0, 1)
    ELSE LET diff == IF rLess(price1, price2) THEN rDiff(price2, price1)
                     ELSE rDiff(price1, price2)
         IN  rProd(rQuot(diff, price1), rat(100, 1))

\* calculatePriceDifference
calculatePriceDifference(price1, price2) ==
    IF price1.num = 0 \/ price2.num = 0
    THEN rat(0, 1)
    ELSE LET avgPrice == rQuot(rSum(price1, price2), rat(2, 1))
             diff == IF rLess(price1, price2) THEN rDiff(price2, price1)
                     ELSE rDiff(price1, price2)
         IN  rProd(rQuot(diff, avgPrice), rat(100, 1))

\* determineArbitrageDirection with its comparison reversed
determineArbitrageDirection_reversed(priceData1, priceData2) ==
    LET price1 == priceData1.priceToken0InToken1
        price2 == priceData2.priceToken0InToken1
    IN  IF rLess(price2, price1)
        THEN [buyFrom |-> priceData1.dex, buyPrice |-> price1,
              sellTo |-> priceData2.dex, sellPrice |-> price2,
              priceDiffPercent |-> calculatePriceDifference(price1, price2)]
        ELSE [buyFrom |-> priceData2.dex, buyPrice |-> price2,
              sellTo |-> priceData1.dex, sellPrice |-> price1,
              priceDiffPercent |-> calculatePriceDifference(price1, price2)]

\* determineArbitrageDirection
determineArbitrageDirection(priceData1, priceData2) ==
    LET price1 == priceData1.priceToken0InToken1
        price2 == priceData2.priceToken0InToken1
    IN  IF rLess(price1, price2)
        THEN [buyFrom |-> priceData1.dex, buyPrice |-> price1,
              sellTo |-> priceData2.dex, sellPrice |-> price2,
              priceDiffPercent |-> calculatePriceDifference(price1, price2)]
        ELSE [buyFrom |-> priceData2.dex, buyPrice |-> price2,
              sellTo |-> priceData1.dex, sellPrice |-> price1,
              priceDiffPercent |-> calculatePriceDifference(price1, price2)]

\* calculatePotentialProfit with the slippage of the sell leg left out
calculatePotentialProfit_buyLegOnly(buyPrice, sellPrice, tradeAmount, slippagePercent) ==
    LET one == rat(1, 1)
        effectiveBuyPrice == rProd(buyPrice, rSum(one, rQuot(slippagePercent, rat(100, 1))))
        effectiveSellPrice == sellPrice
        costToBuy == rProd(tradeAmount, effectiveBuyPrice)
        revenueFromSell == rProd(tradeAmount, effectiveSellPrice)
        grossProfitQuote == rDiff(revenueFromSell, costToBuy)
        profitPercent == rProd(rQuot(grossProfitQuote, costToBuy), rat(100, 1))
    IN  [tradeAmount |-> tradeAmount, costToBuy |-> costToBuy,
         revenueFromSell |-> revenueFromSell, grossProfitQuote |-> grossProfitQuote,
         profitPercent |-> profitPercent, effectiveBuyPrice |-> effectiveBuyPrice,
         effectiveSellPrice |-> effectiveSellPrice]

\* calculatePotentialProfit applying no slippage to either leg
calculatePotentialProfit_noSlippage(buyPrice, sellPrice, tradeAmount, slippagePercent) ==
    LET effectiveBuyPrice == buyPrice
        effectiveSellPrice == sellPrice
        costToBuy == rProd(tradeAmount, effectiveBuyPrice)
        revenueFromSell == rProd(tradeAmount, effectiveSellPrice)
        grossProfitQuote == rDiff(revenueFromSell, costToBuy)
        profitPercent == rProd(rQuot(grossProfitQuote, costToBuy), rat(100, 1))
    IN  [tradeAmount |-> tradeAmount, costToBuy |-> costToBuy,
         revenueFromSell |-> revenueFromSell, grossProfitQuote |-> grossProfitQuote,
         profitPercent |-> profitPercent, effectiveBuyPrice |-> effectiveBuyPrice,
         effectiveSellPrice |-> effectiveSellPrice]

\* calculatePotentialProfit
calculatePotentialProfit(buyPrice, sellPrice, tradeAmount, slippagePercent) ==
    LET one == rat(1, 1)
        effectiveBuyPrice == rProd(buyPrice, rSum(one, rQuot(slippagePercent, rat(100, 1))))
        effectiveSellPrice == rProd(sellPrice, rDiff(one, rQuot(slippagePercent, rat(100, 1))))
        costToBuy == rProd(tradeAmount, effectiveBuyPrice)
        revenueFromSell == rProd(tradeAmount, effectiveSellPrice)
        grossProfitQuote == rDiff(revenueFromSell, costToBuy)
        profitPercent == rProd(rQuot(grossProfitQuote, costToBuy), rat(100, 1))
    IN  [tradeAmount |-> tradeAmount, costToBuy |-> costToBuy,
         revenueFromSell |-> revenueFromSell, grossProfitQuote |-> grossProfitQuote,
         profitPercent |-> profitPercent, effectiveBuyPrice |-> effectiveBuyPrice,
         effectiveSellPrice |-> effectiveSellPrice]

\* calculateNetProfit accepting a net profit equal to the threshold
calculateNetProfit_atLeastThreshold(grossProfitUsd, gasCostUsd) ==
    LET totalGasCost == rProd(gasCostUsd, rat(2, 1))
        netProfitUsd == rDiff(grossProfitUsd, totalGasCost)
    IN  [grossProfitUsd |-> grossProfitUsd,
         totalGasCostUsd |-> totalGasCost,
         netProfitUsd |-> netProfitUsd,
         isProfitable |-> ~rLess(netProfitUsd, tradingConfig.GAS_CONFIG.MIN_PROFIT_THRESHOLD_USD),
         profitAfterGasPercent |->
             IF grossProfitUsd.num > 0
             THEN rProd(rQuot(netProfitUsd, grossProfitUsd), rat(100, 1))
             ELSE rat(0, 1)]

\* calculateNetProfit
calculateNetProfit(grossProfitUsd, gasCostUsd) ==
    LET totalGasCost == rProd(gasCostUsd, rat(2, 1))
        netProfitUsd == rDiff(grossProfitUsd, totalGasCost)
    IN  [grossProfitUsd |-> grossProfitUsd,
         totalGasCostUsd |-> totalGasCost,
         netProfitUsd |-> netProfitUsd,
         isProfitable |-> rLess(tradingConfig.GAS_CONFIG.MIN_PROFIT_THRESHOLD_USD, netProfitUsd),
         profitAfterGasPercent |->
             IF grossProfitUsd.num > 0
             THEN rProd(rQuot(netProfitUsd, grossProfitUsd), rat(100, 1))
             ELSE rat(0, 1)]

\* getRecommendation testing the profitability before the threshold
getRecommendation_profitFirst(netProfitCalc, priceDiffPercent) ==
    IF ~netProfitCalc.isProfitable
    THEN [text |-> "NO TRADE - Gas costs ($1) exceed potential profit ($2)",
          amounts |-> <<toFixed4(netProfitCalc.totalGasCostUsd),
                        toFixed4(netProfitCalc.grossProfitUsd)>>]
    ELSE IF rLess(priceDiffPercent, tradingConfig.ARBITRAGE_CONFIG.MIN_PRICE_DIFF_PERCENT)
         THEN [text |-> "NO TRADE - Price difference below minimum threshold", amounts |-> <<>>]
         ELSE [text |-> "PROFITABLE - Net profit after gas: $1",
               amounts |-> <<toFixed4(netProfitCalc.netProfitUsd)>>]

\* getRecommendation: the text, with the amounts it prints through toFixed(4)
getRecommendation(netProfitCalc, priceDiffPercent) ==
    IF rLess(priceDiffPercent, tradingConfig.ARBITRAGE_CONFIG.MIN_PRICE_DIFF_PERCENT)
    THEN [text |-> "NO TRADE - Price difference below minimum threshold", amounts |-> <<>>]
    ELSE IF ~netProfitCalc.isProfitable
         THEN [text |-> "NO TRADE - Gas costs ($1) exceed potential profit ($2)",
               amounts |-> <<toFixed4(netProfitCalc.totalGasCostUsd),
                             toFixed4(netProfitCalc.grossProfitUsd)>>]
         ELSE [text |-> "PROFITABLE - Net profit after gas: $1",
               amounts |-> <<toFixed4(netProfitCalc.netProfitUsd)>>]

\* the filter of analyzeArbitrage testing only !p.error
isValidPrice_ignoresPrice(p) ==
    /\ ~("error" \in DOMAIN p /\ p.error # <<>>)
    /\ "priceToken0InToken1" \in DOMAIN p

\* !p.error && p.priceToken0InToken1: no error text and a price that is neither
\* missing nor 0
isValidPrice(p) ==
    /\ ~("error" \in DOMAIN p /\ p.error # <<>>)
    /\ "priceToken0InToken1" \in DOMAIN p
    /\ p.priceToken0InToken1.num # 0

\* the scan replacing the best buy entry by a later entry of the same price
RECURSIVE scanBest_laterOnEqual(_, _, _, _)
scanBest_laterOnEqual(validPrices, i, bestBuy, bestSell) ==
    IF i > Len(validPrices) THEN [bestBuy |-> bestBuy, bestSell |-> bestSell]
    ELSE LET price == validPrices[i]
         IN  scanBest_laterOnEqual(validPrices, i + 1,
                 IF ~rLess(bestBuy.priceToken0InToken1, price.priceToken0InToken1)
                 THEN price ELSE bestBuy,
                 IF rLess(bestSell.priceToken0InToken1, price.priceToken0InToken1)
                 THEN price ELSE bestSell)

\* the scan of analyzeArbitrage for the lowest and the highest price, from
\* entry i on: a later entry replaces the best one only when strictly better
RECURSIVE scanBest(_, _, _, _)
scanBest(validPrices, i, bestBuy, bestSell) ==
    IF i > Len(validPrices) THEN [bestBuy |-> bestBuy, bestSell |-> bestSell]
    ELSE LET price == validPrices[i]
         IN  scanBest(validPrices, i + 1,
                 IF rLess(price.priceToken0InToken1, bestBuy.priceToken0InToken1)
                 THEN price ELSE bestBuy,
                 IF rLess(bestSell.priceToken0InToken1, price.priceToken0InToken1)
                 THEN price ELSE bestSell)

\* analyzeArbitrage reporting an opportunity only when it is profitable
analyzeArbitrage_onlyIfProfitable(prices, tradeAmountEth, gasCostUsd) ==
    LET validPrices == SelectSeq(prices, isValidPrice)
    IN  IF Len(validPrices) < 2
        THEN [hasOpportunity |-> FALSE,
              reason |-> "Insufficient valid price data from DEXes",
              validDexCount |-> Len(validPrices)]
        ELSE
        LET best == scanBest(validPrices, 1, validPrices[1], validPrices[1])
        IN  IF best.bestBuy.dex = best.bestSell.dex
            THEN [hasOpportunity |-> FALSE,
                  reason |-> "Best buy and sell prices are from the same DEX",
                  prices |-> [i \in 1..Len(validPrices) |->
                                 [dex |-> validPrices[i].dex,
                                  price |-> validPrices[i].priceToken0InToken1]]]
            ELSE
            LET direction == determineArbitrageDirection(best.bestBuy, best.bestSell)
                profitCalc == calculatePotentialProfit(direction.buyPrice, direction.sellPrice,
                                  tradeAmountEth, tradingConfig.ARBITRAGE_CONFIG.SLIPPAGE_TOLERANCE_PERCENT)
                netProfitCalc == calculateNetProfit(profitCalc.grossProfitQuote, gasCostUsd)
                meetsThreshold == ~rLess(direction.priceDiffPercent,
                                         tradingConfig.ARBITRAGE_CONFIG.MIN_PRICE_DIFF_PERCENT)
            IN  [hasOpportunity |-> meetsThreshold /\ netProfitCalc.isProfitable,
                 isProfitableAfterGas |-> netProfitCalc.isProfitable,
                 direction |-> [buyFrom |-> direction.buyFrom, buyPrice |-> direction.buyPrice,
                                sellTo |-> direction.sellTo, sellPrice |-> direction.sellPrice],
                 priceDifference |-> [percent |-> direction.priceDiffPercent,
                                      meetsThreshold |-> meetsThreshold],
                 profitAnalysis |-> [tradeAmountEth |-> tradeAmountEth,
                                     grossProfitUsd |-> profitCalc.grossProfitQuote,
                                     gasCostUsd |-> netProfitCalc.totalGasCostUsd,
                                     netProfitUsd |-> netProfitCalc.netProfitUsd,
                                     profitAfterSlippage |-> profitCalc.profitPercent],
                 recommendation |-> getRecommendation(netProfitCalc, direction.priceDiffPercent),
                 allPrices |-> [i \in 1..Len(validPrices) |->
                                   [dex |-> validPrices[i].dex,
                                    price |-> validPrices[i].priceToken0InToken1,
                                    liquidity |-> validPrices[i].liquidity]],
                 timestamp |-> clock]

\* analyzeArbitrage
analyzeArbitrage(prices, tradeAmountEth, gasCostUsd) ==
    LET validPrices == SelectSeq(prices, isValidPrice)
    IN  IF Len(validPrices) < 2
        THEN [hasOpportunity |-> FALSE,
              reason |-> "Insufficient valid price data from DEXes",
              validDexCount |-> Len(validPrices)]
        ELSE
        LET best == scanBest(validPrices, 1, validPrices[1], validPrices[1])
        IN  IF best.bestBuy.dex = best.bestSell.dex
            THEN [hasOpportunity |-> FALSE,
                  reason |-> "Best buy and sell prices are from the same DEX",
                  prices |-> [i \in 1..Len(validPrices) |->
                                 [dex |-> validPrices[i].dex,
                                  price |-> validPrices[i].priceToken0InToken1]]]
            ELSE
            LET direction == determineArbitrageDirection(best.bestBuy, best.bestSell)
                profitCalc == calculatePotentialProfit(direction.buyPrice, direction.sellPrice,
                                  tradeAmountEth, tradingConfig.ARBITRAGE_CONFIG.SLIPPAGE_TOLERANCE_PERCENT)
                netProfitCalc == calculateNetProfit(profitCalc.grossProfitQuote, gasCostUsd)
                meetsThreshold == ~rLess(direction.priceDiffPercent,
                                         tradingConfig.ARBITRAGE_CONFIG.MIN_PRICE_DIFF_PERCENT)
            IN  [hasOpportunity |-> meetsThreshold,
                 isProfitableAfterGas |-> netProfitCalc.isProfitable,
                 direction |-> [buyFrom |-> direction.buyFrom, buyPrice |-> direction.buyPrice,
                                sellTo |-> direction.sellTo, sellPrice |-> direction.sellPrice],
                 priceDifference |-> [percent |-> direction.priceDiffPercent,
                                      meetsThreshold |-> meetsThreshold],
                 profitAnalysis |-> [tradeAmountEth |-> tradeAmountEth,
                                     grossProfitUsd |-> profitCalc.grossProfitQuote,
                                     gasCostUsd |-> netProfitCalc.totalGasCostUsd,
                                     netProfitUsd |-> netProfitCalc.netProfitUsd,
                                     profitAfterSlippage |-> profitCalc.profitPercent],
                 recommendation |-> getRecommendation(netProfitCalc, direction.priceDiffPercent),
                 allPrices |-> [i \in 1..Len(validPrices) |->
                                   [dex |-> validPrices[i].dex,
                                    price |-> validPrices[i].priceToken0InToken1,
                                    liquidity |-> validPrices[i].liquidity]],
                 timestamp |-> clock]

\* the outcome lists a direct analyzeArbitrage call is followed for: entries
\* of three sources that failed, or quote a price of 0, 3000, 3001, 3030 or 3100;
\* the trade is of 1 or 2 tokens at a cost of 0, 0.01 or 20 per swap
ArbitrageOutcomes ==
    LET dexes == {"Uniswap V3", "Aerodrome CL", "BaseSwap"}
    IN  {[dex |-> d, error |-> msg.NetworkTimeout] : d \in dexes}
        \cup {[dex |-> d, priceToken0InToken1 |-> rat(n, 1), liquidity |-> "1000000"] :
                 d \in dexes, n \in {0, 3000, 3001, 3030, 3100}}
ArbitrageArguments ==
    [prices : UNION {[1..n -> ArbitrageOutcomes] : n \in 0..MaxOutcomes},
     tradeAmountEth : {rat(1, 1), rat(2, 1)},
     gasCostUsd : {rat(0, 1), rat(1, 100), rat(20, 1)},
     result : {<<>>}]

\* a direct call analyzeArbitrage(prices, tradeAmountEth, gasCostUsd)
AnalyzeArbitrage ==
    /\ arb # <<>>
    /\ arb[1].result = <<>>
    /\ arb' = <<[arb[1] EXCEPT !.result =
                    <<analyzeArbitrage(arb[1].prices, arb[1].tradeAmountEth,
                                       arb[1].gasCostUsd)>>]>>
    /\ UNCHANGED <<handlerVars, tradingConfig, mon, agentVars, probe, lastReport, fetch, norm>>

\* the arguments the exported functions of the calculator are called with
\* directly: prices, trade amounts, slippage percentages, gross profits and
\* per-swap gas costs
CalculatorArguments ==
    LET prices == {rat(n, 1) : n \in {0, 3000, 3001, 3030, 3100}} \cup {rat(1, 2)}
        positive == {p \in prices : p.num > 0}
        amounts == {rat(1, 2), rat(1, 1), rat(2, 1)}
        slippages == {rat(0, 1), rat(1, 2), rat(1, 1)}
        profits == {rat(30, 1), rat(1, 2), rat(1, 1), rat(2, 1), rat(51, 50), rat(0 - 3, 20)}
        gasCosts == {rat(0, 1), rat(1, 100), rat(1, 2), rat(20, 1)}
    IN  [fn : {"calculatePriceDifference"}, args : prices \X prices, result : {<<>>}]
        \cup [fn : {"calculatePotentialProfit"},
              args : positive \X positive \X amounts \X slippages, result : {<<>>}]
        \cup [fn : {"calculateNetProfit"}, args : profits \X gasCosts, result : {<<>>}]

\* a direct call calculatePriceDifference(price1, price2)
CalculatePriceDifference ==
    /\ arb # <<>>
    /\ arb[1].fn = "calculatePriceDifference"
    /\ arb[1].result = <<>>
    /\ arb' = <<[arb[1] EXCEPT !.result =
                    <<calculatePriceDifference(arb[1].args[1], arb[1].args[2])>>]>>
    /\ UNCHANGED <<handlerVars, tradingConfig, mon, agentVars, probe, lastReport, fetch, norm>>

\* a direct call calculatePotentialProfit(buyPrice, sellPrice, tradeAmount, slippagePercent)
CalculatePotentialProfit ==
    /\ arb # <<>>
    /\ arb[1].fn = "calculatePotentialProfit"
    /\ arb[1].result = <<>>
    /\ arb' = <<[arb[1] EXCEPT !.result =
                    <<calculatePotentialProfit(arb[1].args[1], arb[1].args[2],
                                               arb[1].args[3], arb[1].args[4])>>]>>
    /\ UNCHANGED <<handlerVars, tradingConfig, mon, agentVars, probe, lastReport, fetch, norm>>

\* a direct call calculateNetProfit(grossProfitUsd, gasCostUsd)
CalculateNetProfit ==
    /\ arb # <<>>
    /\ arb[1].fn = "calculateNetProfit"
    /\ arb[1].result = <<>>
    /\ arb' = <<[arb[1] EXCEPT !.result =
                    <<calculateNetProfit(arb[1].args[1], arb[1].args[2])>>]>>
    /\ UNCHANGED <<handlerVars, tradingConfig, mon, agentVars, probe, lastReport, fetch, norm>>

-----------------------------------------------------------------------------
(* Specifications *)

defaultHandlerConfig ==
    [maxRetries |-> DefaultMaxRetries, retryDelayMs |-> DefaultRetryDelayMs,
     exponentialBackoff |-> TRUE, useAIAgent |-> TRUE]

defaultAgentConfig ==
    [errorHistoryLimit |-> DefaultErrorHistoryLimit, requireAuthForChanges |-> TRUE]

noProbe ==
    [error |-> err.Unknown, context |-> [operation |-> ""], diagnosis |-> <<>>]

\* no price fetch started, no direct call of the normalizer or the detector
InitPipelineIdle ==
    /\ fetch = idleFetch
    /\ norm = <<>>
    /\ arb = <<>>

\* config.js as loaded: the exported configuration objects hold their literals
InitTradingConfig ==
    tradingConfig = [ARBITRAGE_CONFIG |-> ARBITRAGE_CONFIG, GAS_CONFIG |-> GAS_CONFIG]

\* new AIAgent(): empty collections, zero metrics
InitAgentState ==
    /\ errorHistory = <<>>
    /\ diagnosticResults = <<>>
    /\ recommendations = <<>>
    /\ performanceMetrics = initialMetrics
    /\ pendingChanges = <<>>
    /\ authorizedChanges = <<>>
    /\ auth = [r \in AuthorizationArguments.requests |-> idleRequest]
    /\ clock = 0
    /\ lastReport = <<>>

\* new SmartErrorHandler({maxRetries, useAIAgent}) with its own default agent;
\* no invocation started
Init ==
    /\ handlerConfig \in [maxRetries : 0..MaxRetriesBound, retryDelayMs : {DefaultRetryDelayMs},
                          exponentialBackoff : {TRUE}, useAIAgent : BOOLEAN]
    /\ errorLog = <<>>
    /\ inv = [c \in Calls |-> idleInvocation]
    /\ agentConfig = defaultAgentConfig
    /\ InitAgentState
    /\ InitTradingConfig
    /\ mon = <<>>
    /\ probe = noProbe
    /\ InitPipelineIdle

\* concurrent wrapped invocations on one handler
Next ==
    \/ \E c \in Calls, context \in WrapContexts : Invoke(c, context) /\ UNCHANGED fetch
    \/ \E c \in Calls, value \in FnValues : FnResolves(c, value)
    \/ \E c \in Calls, error \in WrapErrors : FnRejects(c, error)
    \/ \E c \in Calls : FixesApplied(c)
    \/ \E c \in Calls : DelayElapsed(c) /\ UNCHANGED fetch

Spec == Init /\ [][Next]_vars

\* new SmartErrorHandler(config) for every retry policy; no invocation started
InitSolo ==
    /\ handlerConfig \in [maxRetries : 0..MaxRetriesBound, retryDelayMs : RetryDelayChoices,
                          exponentialBackoff : BOOLEAN, useAIAgent : BOOLEAN]
    /\ errorLog = <<>>
    /\ inv = [c \in Calls |-> idleInvocation]
    /\ agentConfig = defaultAgentConfig
    /\ InitAgentState
    /\ InitTradingConfig
    /\ mon = <<>>
    /\ probe = noProbe
    /\ InitPipelineIdle

\* one wrapped invocation, its function failing with errors of every category
NextSolo ==
    \/ \E context \in WrapContexts : Invoke("A", context) /\ UNCHANGED fetch
    \/ \E value \in FnValues : FnResolves("A", value)
    \/ \E error \in SoloErrors : FnRejects("A", error)
    \/ FixesApplied("A")
    \/ DelayElapsed("A") /\ UNCHANGED fetch
    \/ OptimizeTradingParameters

SpecSolo == InitSolo /\ [][NextSolo]_vars

\* one wrapped invocation alone on its handler
NextSoloSettling ==
    \/ \E context \in WrapContexts : Invoke("A", context) /\ UNCHANGED fetch
    \/ \E value \in FnValues : FnResolves("A", value)
    \/ \E error \in SoloErrors : FnRejects("A", error)
    \/ FixesApplied("A")
    \/ DelayElapsed("A") /\ UNCHANGED fetch

\* that invocation when every promise the wrapper awaits settles: fn resolves
\* or rejects, _applyImmediateFixes resolves, the delay timer fires
SpecSoloSettling ==
    /\ InitSolo /\ [][NextSoloSettling]_vars
    /\ WF_vars((\E value \in FnValues : FnResolves("A", value))
                  \/ (\E error \in SoloErrors : FnRejects("A", error)))
    /\ WF_vars(FixesApplied("A"))
    /\ WF_vars(DelayElapsed("A") /\ UNCHANGED fetch)

\* new AIAgent({errorHistoryLimit}), used directly
InitAgent ==
    /\ handlerConfig = defaultHandlerConfig
    /\ errorLog = <<>>
    /\ inv = [c \in Calls |-> idleInvocation]
    /\ agentConfig \in [errorHistoryLimit : 0..MaxHistoryLimit, requireAuthForChanges : {TRUE}]
    /\ InitAgentState
    /\ InitTradingConfig
    /\ mon = <<>>
    /\ probe = noProbe
    /\ InitPipelineIdle

AgentErrors == {err.Slippage}

NextAgent ==
    \/ \E error \in AgentErrors : AnalyzeError(error, [operation |-> ""])
    \/ OptimizeTradingParameters
    \/ GenerateOptimizationReport
    \/ Reset

SpecAgent == InitAgent /\ [][NextAgent]_vars

\* one analyzeError call on a new default agent, for every error and context
InitClassify ==
    /\ handlerConfig = defaultHandlerConfig
    /\ errorLog = <<>>
    /\ inv = [c \in Calls |-> idleInvocation]
    /\ agentConfig \in [errorHistoryLimit : {DefaultErrorHistoryLimit}, requireAuthForChanges : BOOLEAN]
    /\ InitAgentState
    /\ InitTradingConfig
    /\ mon = <<>>
    /\ probe \in [error : ErrorObjects, context : Contexts, diagnosis : {<<>>}]
    /\ InitPipelineIdle

NextClassify ==
    AnalyzeProbe

SpecClassify == InitClassify /\ [][NextClassify]_vars

\* one sqrtPriceX96ToPrice and one sqrtPriceX96ToInversePrice call on every argument
InitNormalize ==
    /\ handlerConfig = defaultHandlerConfig
    /\ errorLog = <<>>
    /\ inv = [c \in Calls |-> idleInvocation]
    /\ agentConfig = defaultAgentConfig
    /\ InitAgentState
    /\ InitTradingConfig
    /\ mon = <<>>
    /\ probe = noProbe
    /\ fetch = idleFetch
    /\ arb = <<>>
    /\ \E x \in SqrtPriceArguments, d0 \in DecimalsArguments, d1 \in DecimalsArguments :
          norm = <<[sqrtPriceX96 |-> x, token0Decimals |-> d0, token1Decimals |-> d1,
                    price |-> <<>>, inverse |-> <<>>]>>

NextNormalize ==
    \/ ToPrice
    \/ ToInversePrice

SpecNormalize == InitNormalize /\ [][NextNormalize]_vars

\* the wrapped price fetch of main on a handler of every retry policy, for
\* every pair; no fetch started
InitFetch ==
    /\ handlerConfig \in [maxRetries : 0..MaxRetriesBound, retryDelayMs : {DefaultRetryDelayMs},
                          exponentialBackoff : {TRUE}, useAIAgent : BOOLEAN]
    /\ errorLog = <<>>
    /\ inv = [c \in Calls |-> idleInvocation]
    /\ agentConfig = defaultAgentConfig
    /\ InitAgentState
    /\ InitTradingConfig
    /\ mon = <<>>
    /\ probe = noProbe
    /\ \E pair \in Pairs : fetch = [idleFetch EXCEPT !.pair = pair]
    /\ norm = <<>>
    /\ arb = <<>>

NextFetch ==
    \/ CallWrappedFetch
    \/ \E s \in SourceSet, r \in ReadNames :
          \E settled \in ReadOutcomes(r) : ReadSettles(s, r, settled)
    \/ PromiseAllResolves
    \/ WrappedFetchResolves
    \/ WrappedFetchRejects
    \/ FixesApplied("A")
    \/ RetryWrappedFetch

SpecFetch == InitFetch /\ [][NextFetch]_vars

\* one analyzeArbitrage call on every outcome list
InitArbitrage ==
    /\ handlerConfig = defaultHandlerConfig
    /\ errorLog = <<>>
    /\ inv = [c \in Calls |-> idleInvocation]
    /\ agentConfig = defaultAgentConfig
    /\ InitAgentState
    /\ InitTradingConfig
    /\ mon = <<>>
    /\ probe = noProbe
    /\ fetch = idleFetch
    /\ norm = <<>>
    /\ \E arguments \in ArbitrageArguments : arb = <<arguments>>

NextArbitrage ==
    AnalyzeArbitrage

SpecArbitrage == InitArbitrage /\ [][NextArbitrage]_vars

\* new SmartErrorHandler({maxRetries}) that classifies failures, on an agent
\* of every small errorHistoryLimit; no invocation started
InitSharedAgent ==
    /\ handlerConfig \in [maxRetries : 0..MaxRetriesBound, retryDelayMs : {DefaultRetryDelayMs},
                          exponentialBackoff : {TRUE}, useAIAgent : {TRUE}]
    /\ errorLog = <<>>
    /\ inv = [c \in Calls |-> idleInvocation]
    /\ agentConfig \in [errorHistoryLimit : 0..MaxHistoryLimit, requireAuthForChanges : {TRUE}]
    /\ InitAgentState
    /\ InitTradingConfig
    /\ mon = <<>>
    /\ probe = noProbe
    /\ InitPipelineIdle

\* concurrent wrapped invocations whose failures are diagnosed by the one agent
NextSharedAgent ==
    \/ \E c \in Calls : Invoke(c, [operation |-> ""]) /\ UNCHANGED fetch
    \/ \E c \in Calls : FnResolves(c, "success")
    \/ \E c \in Calls, error \in WrapErrors : FnRejects(c, error)
    \/ \E c \in Calls : FixesApplied(c)
    \/ \E c \in Calls : DelayElapsed(c) /\ UNCHANGED fetch

SpecSharedAgent == InitSharedAgent /\ [][NextSharedAgent]_vars

\* new AIAgent({requireAuthForChanges}); no request made
InitAuthorization ==
    /\ handlerConfig = defaultHandlerConfig
    /\ errorLog = <<>>
    /\ inv = [c \in Calls |-> idleInvocation]
    /\ agentConfig \in [errorHistoryLimit : {DefaultErrorHistoryLimit},
                        requireAuthForChanges : BOOLEAN]
    /\ InitAgentState
    /\ InitTradingConfig
    /\ mon = <<>>
    /\ probe = noProbe
    /\ InitPipelineIdle

\* requestAuthorization calls on one agent, their callbacks settling in any order
NextAuthorization ==
    \/ \E r \in AuthorizationArguments.requests, change \in AuthorizationArguments.changes,
          authCallback \in AuthorizationArguments.callbacks,
          random \in AuthorizationArguments.random :
          RequestAuthorization(r, change, authCallback, random)
    \/ \E r \in AuthorizationArguments.requests, result \in AuthorizationArguments.results :
          CallbackResolves(r, result)
    \/ \E r \in AuthorizationArguments.requests : CallbackRejects(r)

SpecAuthorization == InitAuthorization /\ [][NextAuthorization]_vars

\* the same calls with reports and resets of the agent at any moment, also
\* while a callback is awaited
NextAuthorizationReset ==
    \/ NextAuthorization
    \/ GenerateOptimizationReport
    \/ Reset

SpecAuthorizationReset == InitAuthorization /\ [][NextAuthorizationReset]_vars

\* the agent used as an adviser: failures analysed, parameters optimised, the
\* code change of an optimisation submitted for authorization and decided,
\* reports generated, in any order
InitAdvisory ==
    /\ handlerConfig \in [maxRetries : 0..MaxRetriesBound, retryDelayMs : {DefaultRetryDelayMs},
                          exponentialBackoff : {TRUE}, useAIAgent : {TRUE}]
    /\ errorLog = <<>>
    /\ inv = [c \in Calls |-> idleInvocation]
    /\ agentConfig = defaultAgentConfig
    /\ InitAgentState
    /\ InitTradingConfig
    /\ mon = <<>>
    /\ probe = noProbe
    /\ InitPipelineIdle

NextAdvisory ==
    \/ AnalyzeError(err.Slippage, [operation |-> ""])
    \/ OptimizeTradingParameters
    \/ RequestAuthorization("R1",
           [file |-> "src/config.js",
            description |-> "Update trading parameters based on AI optimization",
            changeType |-> "modification"],
           "function", "4fzzzx")
    \/ \E result \in AuthorizationArguments.results : CallbackResolves("R1", result)
    \/ GenerateOptimizationReport

SpecAdvisory == InitAdvisory /\ [][NextAdvisory]_vars

\* monitor(intervalMs), from its call or from the end of a wait: cycleCount++
\* and main() up to its first await. main reads the pair from process.argv
\* and exits with status 1 when POOLS has no such pair.
MonitorCycle ==
    /\ mon # <<>>
    /\ mon[1].pc \in {"called", "waiting"}
    /\ mon[1].cycleCount < MaxCycles
    /\ mon' = <<[mon[1] EXCEPT !.cycleCount = @ + 1,
                               !.pc = IF mon[1].pair \in DOMAIN POOLS THEN "main" ELSE "exited",
                               !.exitCode = IF mon[1].pair \in DOMAIN POOLS THEN @ ELSE <<1>>]>>
    /\ UNCHANGED <<handlerVars, tradingConfig, agentVars, probe, lastReport, pipelineVars>>

\* the try block of main completes and main returns: it has analysed the
\* error of a source that failed ("sourceFailed"), or asked for an
\* optimisation after an opportunity that is not profitable ("unprofitable"),
\* or neither ("clean"). monitor then asks for an optimisation in every 10th
\* cycle and starts the wait of intervalMs.
MainReturns(outcome) ==
    /\ mon # <<>>
    /\ mon[1].pc = "main"
    /\ IF outcome = "sourceFailed"
       THEN analyzeError([message |-> msg.NetworkTimeout, code |-> ""],
                         [operation |-> "price_fetch"])
       ELSE UNCHANGED <<errorHistory, diagnosticResults, performanceMetrics, clock>>
    /\ LET inMain == IF outcome = "unprofitable" THEN <<optimizations'>> ELSE <<>>
           periodic == IF mon[1].cycleCount % 10 = 0 THEN <<optimizations'>> ELSE <<>>
       IN  recommendations' = recommendations \o inMain \o periodic
    /\ mon' = <<[mon[1] EXCEPT !.pc = "waiting", !.waits = Append(@, mon[1].intervalMs)]>>
    /\ UNCHANGED <<handlerVars, tradingConfig, agentConfig, authVars, probe, lastReport,
                   pipelineVars>>

\* the try block of main throws error: the catch block of main analyses it
\* and calls process.exit(1)
MainCatches(error) ==
    /\ mon # <<>>
    /\ mon[1].pc = "main"
    /\ analyzeError(error, [operation |-> "main"])
    /\ mon' = <<[mon[1] EXCEPT !.pc = "exited", !.exitCode = <<1>>, !.failedCycles = @ + 1]>>
    /\ UNCHANGED <<handlerVars, tradingConfig, agentConfig, recommendations, authVars, probe,
                   lastReport, pipelineVars>>

\* node src/index.js <pair> --monitor [--interval=<ms>]: monitor called with
\* the default interval or the one given, on the module's new agent
InitMonitor ==
    /\ handlerConfig = defaultHandlerConfig
    /\ errorLog = <<>>
    /\ inv = [c \in Calls |-> idleInvocation]
    /\ agentConfig = defaultAgentConfig
    /\ InitAgentState
    /\ InitTradingConfig
    /\ probe = noProbe
    /\ InitPipelineIdle
    /\ \E pair \in Pairs, intervalMs \in {5000, 10000} :
           mon = <<[pc |-> "called", pair |-> pair, intervalMs |-> intervalMs, cycleCount |-> 0,
                    waits |-> <<>>, failedCycles |-> 0, exitCode |-> <<>>]>>

NextMonitor ==
    \/ MonitorCycle
    \/ \E outcome \in {"clean", "sourceFailed", "unprofitable"} : MainReturns(outcome)
    \/ \E error \in WrapErrors : MainCatches(error)

SpecMonitor == InitMonitor /\ [][NextMonitor]_vars

\* one direct call of calculatePriceDifference, calculatePotentialProfit or
\* calculateNetProfit on every argument list
InitCalculator ==
    /\ handlerConfig = defaultHandlerConfig
    /\ errorLog = <<>>
    /\ inv = [c \in Calls |-> idleInvocation]
    /\ agentConfig = defaultAgentConfig
    /\ InitAgentState
    /\ InitTradingConfig
    /\ mon = <<>>
    /\ probe = noProbe
    /\ fetch = idleFetch
    /\ norm = <<>>
    /\ \E arguments \in CalculatorArguments : arb = <<arguments>>

NextCalculator ==
    \/ CalculatePriceDifference
    \/ CalculatePotentialProfit
    \/ CalculateNetProfit

SpecCalculator == InitCalculator /\ [][NextCalculator]_vars

-----------------------------------------------------------------------------
(* Properties of the retry loop *)

\* the wrapper classified the last failure of invocation c
Classified(c) ==
    handlerConfig.useAIAgent /\ inv[c].retries >= 1 /\ inv[c].diagnosis # <<>>

\* the condition under which a failed attempt is followed by another attempt:
\* the failed attempt is number retries - 1, counting the initial call as 0
RetryPermitted(c) ==
    /\ inv[c].retries - 1 < handlerConfig.maxRetries
    /\ inv[c].diagnosis[1].category \in {ERROR_CATEGORIES.NETWORK, ERROR_CATEGORIES.GAS, ERROR_CATEGORIES.PRICE}

\* C1: in a handler that classifies failures, after attempt n of an invocation
\* fails, attempt n+1 is started only if n < maxRetries and the category of the
\* failure is retryable, and the invocation ends by throwing only if that
\* condition is false; when it is true the invocation is waiting to retry or
\* has retried.  A call that keeps failing with retryable errors throws after
\* exactly maxRetries + 1 calls of fn.
C1_RetryIffPermitted ==
    \A c \in Calls :
        Classified(c) =>
            /\ inv[c].fnCalls = inv[c].retries + 1 => RetryPermitted(c)
            /\ inv[c].pc = "thrown" => ~RetryPermitted(c)
            /\ RetryPermitted(c) => inv[c].pc \in {"fixes", "delaying", "attempting", "returned"}
            /\ (inv[c].pc = "thrown" /\ inv[c].diagnosis[1].category \in {ERROR_CATEGORIES.NETWORK, ERROR_CATEGORIES.GAS, ERROR_CATEGORIES.PRICE})
                   => inv[c].fnCalls = handlerConfig.maxRetries + 1

\* an invocation has thrown after the initial attempt and maxRetries retries,
\* every failure being classified retryable
C1_Witness ==
    \E c \in Calls :
        /\ Classified(c) /\ inv[c].pc = "thrown"
        /\ handlerConfig.maxRetries = MaxRetriesBound
        /\ inv[c].diagnosis[1].category = ERROR_CATEGORIES.NETWORK
        /\ inv[c].fnCalls = handlerConfig.maxRetries + 1

\* C2: the i-th delay awaited by an invocation (before retry attempt i) is
\* retryDelayMs doubled i-1 times with exponential backoff, so the delays are
\* strictly increasing, and is retryDelayMs without it; an invocation that has
\* thrown awaited no delay after its last failure, and never more than
\* maxRetries delays are awaited.
C2_BackoffDelays ==
    \A c \in Calls :
        LET delays == inv[c].delays
        IN  /\ \A i \in DOMAIN delays :
                IF handlerConfig.exponentialBackoff
                THEN /\ i = 1 => delays[i] = handlerConfig.retryDelayMs
                     /\ i > 1 => delays[i] = 2 * delays[i - 1] /\ delays[i] > delays[i - 1]
                ELSE delays[i] = handlerConfig.retryDelayMs
            /\ Len(delays) <= handlerConfig.maxRetries
            /\ inv[c].pc = "delaying" => Len(delays) = inv[c].retries
            /\ inv[c].pc = "thrown" => Len(delays) = inv[c].retries - 1
            /\ (inv[c].pc = "thrown" /\ Classified(c) /\ inv[c].retries = 1
                  /\ ~isRetryable(inv[c].diagnosis[1].category)) => delays = <<>>

\* an invocation has awaited at least two delays under exponential backoff
C2_Witness ==
    \E c \in Calls :
        /\ handlerConfig.exponentialBackoff
        /\ Len(inv[c].delays) >= 2
        /\ inv[c].delays[2] = 2 * handlerConfig.retryDelayMs

\* C3: the retryable categories are exactly Network, Gas and Price; an
\* invocation whose failure is classified Contract, Liquidity, Slippage,
\* Configuration, Logic or Unknown has thrown without a delay after that
\* failure, and when that failure is its first, fn was called exactly once and
\* no delay was awaited at all.
C3_NonRetryableThrowsAtOnce ==
    /\ \A category \in {ERROR_CATEGORIES[k] : k \in DOMAIN ERROR_CATEGORIES} :
           isRetryable(category) <=> category \in {ERROR_CATEGORIES.NETWORK, ERROR_CATEGORIES.GAS, ERROR_CATEGORIES.PRICE}
    /\ \A c \in Calls :
           (Classified(c) /\ inv[c].diagnosis[1].category \in
                {ERROR_CATEGORIES.CONTRACT, ERROR_CATEGORIES.LIQUIDITY, ERROR_CATEGORIES.SLIPPAGE, ERROR_CATEGORIES.CONFIG, ERROR_CATEGORIES.LOGIC, ERROR_CATEGORIES.UNKNOWN})
           => /\ inv[c].pc = "thrown"
              /\ inv[c].fnCalls = inv[c].retries
              /\ Len(inv[c].delays) = inv[c].retries - 1
              /\ inv[c].retries = 1 => (inv[c].fnCalls = 1 /\ inv[c].delays = <<>>)

\* a Configuration-classified first failure: thrown after one call of fn
C3_Witness ==
    /\ Classified("A") /\ inv["A"].pc = "thrown"
    /\ inv["A"].diagnosis[1].category = ERROR_CATEGORIES.CONFIG
    /\ inv["A"].fnCalls = 1
    /\ handlerConfig.maxRetries > 0

\* C4: an invocation that has returned returns the value fn resolved with and
\* has thrown nothing, after exactly (number of failures) + 1 calls of fn with
\* at most maxRetries failures, one call when fn succeeded at once; once it has
\* returned nothing more happens in it.
C4_ReturnsFnResult ==
    [][\A c \in Calls :
        /\ inv'[c].pc = "returned" =>
              /\ inv'[c].result = inv'[c].fnValue /\ inv'[c].result \in FnValues
              /\ inv'[c].thrown = <<>>
              /\ inv'[c].fnCalls = inv'[c].retries + 1
              /\ inv'[c].retries <= handlerConfig.maxRetries
              /\ inv'[c].retries = 0 => inv'[c].fnCalls = 1
        /\ inv[c].pc = "returned" => inv'[c] = inv[c]]_vars

\* an invocation returned after maxRetries failures followed by a success
C4_Witness ==
    \E c \in Calls :
        /\ inv[c].pc = "returned"
        /\ inv[c].retries = MaxRetriesBound
        /\ inv[c].fnCalls = MaxRetriesBound + 1
        /\ inv[c].result = "success after retry"

\* C5: in a handler that diagnoses failures, the error thrown by an invocation
\* carries the last error fn raised, the context, the number of attempts, and
\* an aiDiagnosis with the message and the category of that last error.
C5_ThrownCarriesOwnDiagnosis ==
    \A c \in Calls :
        (inv[c].pc = "thrown" /\ handlerConfig.useAIAgent) =>
            LET thrown == inv[c].thrown[1]
            IN  /\ thrown.originalError = inv[c].lastError
                /\ thrown.context = inv[c].context
                /\ thrown.retryCount = inv[c].fnCalls
                /\ thrown.aiDiagnosis # <<>>
                /\ thrown.aiDiagnosis[1].errorMessage = inv[c].lastError.message
                /\ thrown.aiDiagnosis[1].category =
                       categorizeError(inv[c].lastError, inv[c].context)

\* C6: the error thrown by an invocation whose failures were diagnosed carries
\* in its recommendations field the recommendation records of those diagnoses,
\* so the field is not empty.
C6_ThrownCarriesRecommendations ==
    \A c \in Calls :
        (inv[c].pc = "thrown" /\ inv[c].diagnosis # <<>>) =>
            LET thrown == inv[c].thrown[1]
                generated == inv[c].diagnosis[1].recommendations
            IN  /\ thrown.recommendations # <<>>
                /\ \A i \in DOMAIN generated :
                       \E j \in DOMAIN thrown.recommendations :
                           thrown.recommendations[j] = generated[i]

-----------------------------------------------------------------------------
(* Properties of the agent *)

\* the order of the rules as the taxonomy states it
RuleOrder ==
    <<ERROR_CATEGORIES.NETWORK, ERROR_CATEGORIES.CONTRACT, ERROR_CATEGORIES.PRICE, ERROR_CATEGORIES.LIQUIDITY, ERROR_CATEGORIES.GAS, ERROR_CATEGORIES.SLIPPAGE, ERROR_CATEGORIES.CONFIG, ERROR_CATEGORIES.LOGIC>>

\* the rule of a category holds of (error, context)
RuleMatches(category, error, context) ==
    LET message == toLowerCase(error.message)
        code == error.code
    IN  CASE category = ERROR_CATEGORIES.NETWORK -> networkRule(message, code, context)
          [] category = ERROR_CATEGORIES.CONTRACT -> contractRule(message, code, context)
          [] category = ERROR_CATEGORIES.PRICE -> priceRule(message, code, context)
          [] category = ERROR_CATEGORIES.LIQUIDITY -> liquidityRule(message, code, context)
          [] category = ERROR_CATEGORIES.GAS -> gasRule(message, code, context)
          [] category = ERROR_CATEGORIES.SLIPPAGE -> slippageRule(message, code, context)
          [] category = ERROR_CATEGORIES.CONFIG -> configRule(message, code, context)
          [] category = ERROR_CATEGORIES.LOGIC -> logicRule(message, code, context)

\* the positions in RuleOrder of the rules that hold of (error, context)
Matching(error, context) ==
    {i \in DOMAIN RuleOrder : RuleMatches(RuleOrder[i], error, context)}

\* C7: the category of a diagnosis is one of the nine categories: that of the
\* earliest rule, in the order Network, Contract, Price, Liquidity, Gas,
\* Slippage, Configuration, Logic, that matches the error, and Unknown when no
\* rule matches.
C7_FirstMatchingRule ==
    probe.diagnosis # <<>> =>
        LET category == probe.diagnosis[1].category
            matching == Matching(probe.error, probe.context)
        IN  /\ category \in {ERROR_CATEGORIES[k] : k \in DOMAIN ERROR_CATEGORIES}
            /\ matching = {} => category = ERROR_CATEGORIES.UNKNOWN
            /\ matching # {} =>
                  \E i \in matching : /\ \A j \in matching : i <= j
                                      /\ category = RuleOrder[i]

\* an error matching the rules of several categories got the earliest, here
\* Price before Slippage
C7_Witness ==
    /\ probe.diagnosis # <<>>
    /\ Cardinality(Matching(probe.error, probe.context)) >= 2
    /\ probe.error.message = msg.PriceImpact
    /\ probe.context.operation = ""
    /\ probe.diagnosis[1].category = ERROR_CATEGORIES.PRICE

\* the severity of each category as the taxonomy states it
StatedSeverity ==
    [c \in {ERROR_CATEGORIES[k] : k \in DOMAIN ERROR_CATEGORIES} |->
        IF c \in {ERROR_CATEGORIES.CONFIG, ERROR_CATEGORIES.LOGIC} THEN 5
        ELSE IF c \in {ERROR_CATEGORIES.LIQUIDITY, ERROR_CATEGORIES.CONTRACT} THEN 4
        ELSE IF c = ERROR_CATEGORIES.SLIPPAGE THEN 2
        ELSE 3]

\* C8: every diagnosis, and every history entry made from it, has the severity
\* stated for its own category, an integer in 1..5.
C8_SeverityOfCategory ==
    /\ \A i \in DOMAIN diagnosticResults :
           /\ diagnosticResults[i].severity = StatedSeverity[diagnosticResults[i].category]
           /\ diagnosticResults[i].severity \in 1..5
    /\ \A i \in DOMAIN errorHistory :
           errorHistory[i].severity = StatedSeverity[errorHistory[i].category]
    /\ probe.diagnosis # <<>> =>
           probe.diagnosis[1].severity = StatedSeverity[probe.diagnosis[1].category]

\* an error that only the context makes a Price error was diagnosed with the
\* severity of Price, not with that of the category its message alone gives
C8_Witness ==
    /\ probe.diagnosis # <<>>
    /\ probe.error.message = msg.InvalidConfig
    /\ probe.context.operation = "price_fetch"
    /\ probe.diagnosis[1].category = ERROR_CATEGORIES.PRICE
    /\ probe.diagnosis[1].severity = 3

\* the last n elements of a sequence
LastN(seq, n) ==
    SubSeq(seq, Len(seq) - n + 1, Len(seq))

\* C9: the history never holds more than errorHistoryLimit entries, and it
\* holds the entries of the most recent analyses since the last reset, in
\* arrival order.
C9_BoundedRollingHistory ==
    LET limit == agentConfig.errorHistoryLimit
        kept == IF Len(diagnosticResults) < limit THEN Len(diagnosticResults) ELSE limit
        recent == LastN(diagnosticResults, kept)
    IN  /\ Len(errorHistory) <= limit
        /\ Len(errorHistory) = kept
        /\ \A i \in 1..kept :
               /\ errorHistory[i].timestamp = recent[i].timestamp
               /\ errorHistory[i].category = recent[i].category

\* the oldest entries were evicted from a history of at least two entries
C9_Witness ==
    /\ agentConfig.errorHistoryLimit >= 2
    /\ Len(errorHistory) = agentConfig.errorHistoryLimit
    /\ Len(diagnosticResults) >= agentConfig.errorHistoryLimit + 2
    /\ errorHistory[1].timestamp = diagnosticResults[3].timestamp

\* C10: the health of a report is the step function of the error rate
\* 100 * (history length) / totalAnalyses of the same report, 0 when
\* totalAnalyses is 0: above 50 critical/20, above 30 degraded/50, above 10
\* warning/75, otherwise healthy/100, the comparisons being strict.
C10_HealthStepFunction ==
    lastReport # <<>> =>
        LET report == lastReport[1]
            total == report.performanceMetrics.totalAnalyses
            len == report.errorAnalysis.totalErrors
            health == report.systemHealth
            \* rate > bound, for rate = 100 * len / total
            Above(bound) == total # 0 /\ 100 * len > bound * total
        IN  /\ Above(50) => (health.status = "critical" /\ health.score = 20)
            /\ (~Above(50) /\ Above(30)) => (health.status = "degraded" /\ health.score = 50)
            /\ (~Above(30) /\ Above(10)) => (health.status = "warning" /\ health.score = 75)
            /\ ~Above(10) => (health.status = "healthy" /\ health.score = 100)

\* a report at an error rate of exactly 30 (3 entries after 10 analyses) falls in
\* the lower band, warning
C10_Witness ==
    /\ lastReport # <<>>
    /\ lastReport[1].performanceMetrics.totalAnalyses = 10
    /\ lastReport[1].errorAnalysis.totalErrors = 3
    /\ lastReport[1].systemHealth.status = "warning"

-----------------------------------------------------------------------------
(* Properties of the diagnosis record *)

\* C11 (as stated): every diagnosis analyzeError produces has requiresAuth
\* true, however the agent was configured.
C11_RequiresAuthAlwaysTrue ==
    /\ \A i \in 1..Len(diagnosticResults) : diagnosticResults[i].requiresAuth = TRUE
    /\ probe.diagnosis # <<>> => probe.diagnosis[1].requiresAuth = TRUE

\* C11 (amended): the requiresAuth flag of every diagnosis equals the
\* requireAuthForChanges setting of the agent that produced it, which is true
\* for an agent constructed without overriding that setting.
C11_RequiresAuthIsConfigFlag ==
    /\ \A i \in 1..Len(diagnosticResults) :
          diagnosticResults[i].requiresAuth = agentConfig.requireAuthForChanges
    /\ probe.diagnosis # <<>> =>
          probe.diagnosis[1].requiresAuth = agentConfig.requireAuthForChanges

\* an agent constructed with {requireAuthForChanges: false} produced a diagnosis
C11_Witness ==
    /\ agentConfig.requireAuthForChanges = FALSE
    /\ probe.diagnosis # <<>>
    /\ Len(diagnosticResults) = 1
    /\ probe.diagnosis[1].requiresAuth = FALSE

-----------------------------------------------------------------------------
(* Properties of the price normalizer *)

\* C16: for sqrtPriceX96 equal to 0n, null or undefined, sqrtPriceX96ToPrice
\* returns the Number 0 (not NaN, no exception) for every pair of decimals.
C16_ZeroSqrtPriceGivesZero ==
    (norm # <<>> /\ norm[1].price # <<>>) =>
        ((norm[1].sqrtPriceX96 \in {jsNull, jsUndefined, bigint(0)}) =>
            /\ norm[1].price[1] = Zero
            /\ norm[1].price[1].kind = "finite")

\* the price of an undefined sqrtPriceX96 with differing decimals was computed
C16_Witness ==
    /\ norm # <<>>
    /\ norm[1].sqrtPriceX96 = jsUndefined
    /\ norm[1].token0Decimals = 18
    /\ norm[1].token1Decimals = 6
    /\ norm[1].price = <<Zero>>

-----------------------------------------------------------------------------
(* Properties of the price fetch *)

\* the pools configured for the pair of the fetch
Configured ==
    IF fetch.pair \in DOMAIN POOLS THEN DOMAIN POOLS[fetch.pair] ELSE {}

\* an entry of a batch is a failure entry
IsFailure(entry) ==
    "error" \in DOMAIN entry

\* some read of pool s was rejected
ReadFailed(s) ==
    \E r \in ReadNames : fetch.reads[s][r].status = "failed"

\* C12: fetchPricesMultipleDEXes starts the fetch of every configured pool of
\* the pair together (as soon as the call is made every pool's reads are
\* issued), its batch resolves only when every started fetch has settled, and
\* a failing pool never makes the batch reject.
C12_FanOutFanIn ==
    /\ fetch.state \in {"pending", "resolved"} =>
          \A s \in Configured :
              /\ fetch.starts[s] = inv["A"].fnCalls
              /\ \A r \in ReadNames : fetch.reads[s][r].status # "none"
    /\ fetch.state = "resolved" => \A s \in Configured : fetch.outcome[s] # <<>>
    /\ inv["A"].pc = "returned" => \A s \in Configured : fetch.outcome[s] # <<>>
    /\ (\E s \in Configured : ReadFailed(s)) =>
          fetch.state # "rejected" /\ inv["A"].pc # "thrown"

\* a batch resolved after one pool failed and the other delivered a price
C12_Witness ==
    /\ fetch.state = "resolved"
    /\ inv["A"].pc = "returned"
    /\ IsFailure(fetch.outcome["UNISWAP_V3"][1])
    /\ ~IsFailure(fetch.outcome["AERODROME_CL"][1])

\* C13: the batch the wrapped fetch returns for a configured pair holds exactly
\* one entry per configured pool, labelled with that pool's dex name (and pool
\* address) whatever the order the reads completed in; a pool with a rejected
\* read appears as a failure entry carrying the message of a rejected read of
\* that pool, a pool whose reads both resolved as a price entry, and no entry
\* is left out.
C13_OneLabelledOutcomePerSource ==
    inv["A"].pc = "returned" =>
        LET prices == inv["A"].result.prices
        IN  /\ Len(prices) = Cardinality(Configured)
            /\ \A s \in Configured :
                  \E i \in 1..Len(prices) :
                      /\ prices[i].dex = dexName[s]
                      /\ \A j \in 1..Len(prices) : prices[j].dex = dexName[s] => j = i
                      /\ IsFailure(prices[i]) <=> ReadFailed(s)
                      /\ IsFailure(prices[i]) =>
                            \E r \in ReadNames :
                                /\ fetch.reads[s][r].status = "failed"
                                /\ prices[i].error = fetch.reads[s][r].message
                      /\ ~IsFailure(prices[i]) =>
                            /\ prices[i].poolAddress = POOLS[fetch.pair][s].address
                            /\ prices[i].tick = fetch.reads[s].slot0.value[1].tick

\* a returned batch in which the pool pushed second failed on its liquidity
\* read before the pool pushed first completed
C13_Witness ==
    /\ inv["A"].pc = "returned"
    /\ Len(inv["A"].result.prices) = 2
    /\ inv["A"].result.prices[2] = failureEntry("AERODROME_CL", msg.ExecutionReverted)
    /\ ~IsFailure(inv["A"].result.prices[1])
    /\ fetch.reads["AERODROME_CL"].slot0.status = "pending"

\* C14: the batch fails as a whole exactly for an unconfigured pair, and then
\* no slot0 or liquidity read has been issued for any pool; for a configured
\* pair the call never fails.
C14_FailsOnlyForUnknownPairBeforeReads ==
    /\ (fetch.state = "rejected" \/ inv["A"].pc \in {"fixes", "delaying", "thrown"}) =>
          /\ fetch.pair \notin DOMAIN POOLS
          /\ \A s \in SourceSet :
                /\ fetch.starts[s] = 0
                /\ \A r \in ReadNames : fetch.reads[s][r].status = "none"
    /\ (fetch.pair \notin DOMAIN POOLS /\ fetch.state # "idle") => fetch.state = "rejected"

\* the fetch of an unconfigured pair was rejected and the wrapper has thrown
C14_Witness ==
    /\ fetch.pair = pairName.WETH_DAI
    /\ fetch.state = "rejected"
    /\ fetch.error.message = strUnknownTradingPair \o pairName.WETH_DAI
    /\ inv["A"].pc = "thrown"

\* C15: a pool whose fetch failed with a retryable error is fetched again by
\* the wrapper, alone, before its outcome is joined into the batch: when the
\* handler classifies failures and allows a retry, a returned batch holding a
\* failure entry of retryable category belongs to a pool fetched at least
\* twice, and every other pool was fetched once.
C15_RetriesInsideSourceFetch ==
    (inv["A"].pc = "returned" /\ handlerConfig.useAIAgent /\ handlerConfig.maxRetries >= 1) =>
        LET prices == inv["A"].result.prices
        IN  \A i \in 1..Len(prices) :
                (/\ IsFailure(prices[i])
                 /\ isRetryable(categorizeError([message |-> prices[i].error, code |-> ""],
                                                priceFetchContext))) =>
                    \A s \in Configured :
                        IF dexName[s] = prices[i].dex
                        THEN fetch.starts[s] >= 2
                        ELSE fetch.starts[s] >= 1

\* the value the reciprocal of a zero price is stated to be
undefinedSentinel ==
    [kind |-> "undefined", num |-> 0, den |-> 0, exp10 |-> 0, exp2 |-> 0]

\* C17: in a price entry whose priceToken0InToken1 is 0, priceToken1InToken0 is
\* the explicit undefined sentinel, not Infinity.
C17_ZeroPriceReciprocalIsSentinel ==
    \A s \in SourceSet :
        (fetch.outcome[s] # <<>> /\ ~IsFailure(fetch.outcome[s][1])) =>
            (fetch.outcome[s][1].priceToken0InToken1 = Zero =>
                /\ fetch.outcome[s][1].priceToken1InToken0 # Infinity
                /\ fetch.outcome[s][1].priceToken1InToken0 = undefinedSentinel)

-----------------------------------------------------------------------------
(* Properties of the arbitrage analysis *)

\* the positions of the valid quotes of an outcome list: entries that are not
\* failures and carry a non-zero price
ValidQuotes(prices) ==
    {i \in 1..Len(prices) :
        /\ "error" \notin DOMAIN prices[i]
        /\ "priceToken0InToken1" \in DOMAIN prices[i]
        /\ prices[i].priceToken0InToken1 # rat(0, 1)}

\* C18: for an outcome list with fewer than 2 valid quotes analyzeArbitrage
\* returns hasOpportunity = false, the reason citing insufficient data, the
\* number of valid quotes, and neither direction nor profit fields.
C18_InsufficientQuotes ==
    (arb # <<>> /\ arb[1].result # <<>>) =>
        LET result == arb[1].result[1]
            valid == ValidQuotes(arb[1].prices)
        IN  Cardinality(valid) < 2 =>
                /\ result.hasOpportunity = FALSE
                /\ result.reason = "Insufficient valid price data from DEXes"
                /\ result.validDexCount = Cardinality(valid)
                /\ DOMAIN result = {"hasOpportunity", "reason", "validDexCount"}

\* a list of three outcomes, one failed and one with price 0, was analysed
C18_Witness ==
    /\ arb # <<>>
    /\ arb[1].result # <<>>
    /\ Len(arb[1].prices) = 3
    /\ Cardinality(ValidQuotes(arb[1].prices)) = 1
    /\ \E i \in 1..3 : "error" \in DOMAIN arb[1].prices[i]
    /\ \E i \in 1..3 : /\ "priceToken0InToken1" \in DOMAIN arb[1].prices[i]
                       /\ arb[1].prices[i].priceToken0InToken1 = rat(0, 1)
    /\ arb[1].result[1].validDexCount = 1

\* C19: when the result has a direction, buyPrice is the lowest and sellPrice
\* the highest price among the valid quotes, buyFrom is the source of a valid
\* quote at buyPrice and sellTo the source of a valid quote at sellPrice.
C19_DirectionIsMinAndMax ==
    (arb # <<>> /\ arb[1].result # <<>> /\ "direction" \in DOMAIN arb[1].result[1]) =>
        LET direction == arb[1].result[1].direction
            prices == arb[1].prices
            valid == ValidQuotes(prices)
        IN  /\ \A i \in valid :
                  /\ ~rLess(prices[i].priceToken0InToken1, direction.buyPrice)
                  /\ ~rLess(direction.sellPrice, prices[i].priceToken0InToken1)
            /\ \E i \in valid : /\ prices[i].dex = direction.buyFrom
                                /\ prices[i].priceToken0InToken1 = direction.buyPrice
            /\ \E i \in valid : /\ prices[i].dex = direction.sellTo
                                /\ prices[i].priceToken0InToken1 = direction.sellPrice

\* three valid quotes of three sources at three prices, the cheapest last, gave a direction
C19_Witness ==
    /\ arb # <<>>
    /\ arb[1].result # <<>>
    /\ Cardinality(ValidQuotes(arb[1].prices)) = 3
    /\ arb[1].prices[3].priceToken0InToken1 = rat(3000, 1)
    /\ arb[1].prices[1].priceToken0InToken1 = rat(3001, 1)
    /\ "direction" \in DOMAIN arb[1].result[1]
    /\ arb[1].result[1].direction.buyFrom = arb[1].prices[3].dex
    /\ arb[1].result[1].direction.sellTo = arb[1].prices[2].dex

\* the part of a result that is stated not to depend on the order of the outcomes
Verdict(result) ==
    IF "direction" \in DOMAIN result
    THEN [hasOpportunity |-> result.hasOpportunity,
          direction |-> <<result.direction>>,
          profit |-> <<result.profitAnalysis, result.isProfitableAfterGas>>,
          recommendation |-> <<result.recommendation>>]
    ELSE [hasOpportunity |-> result.hasOpportunity,
          direction |-> <<>>, profit |-> <<>>, recommendation |-> <<>>]

\* C20: the result of analyzeArbitrage is the same for every permutation of
\* the outcome list: hasOpportunity, buyFrom, sellTo, the prices, the profit
\* figures and the recommendation do not depend on the position of the outcomes.
C20_OrderIndependent ==
    (arb # <<>> /\ arb[1].result # <<>>) =>
        LET prices == arb[1].prices
            n == Len(prices)
        IN  \A f \in [1..n -> 1..n] :
                (\A i, j \in 1..n : f[i] = f[j] => i = j) =>
                    Verdict(analyzeArbitrage([i \in 1..n |-> prices[f[i]]],
                                             arb[1].tradeAmountEth, arb[1].gasCostUsd))
                        = Verdict(arb[1].result[1])

-----------------------------------------------------------------------------
(* Properties of the calculator functions *)

\* the direct call of fn has returned
Returned(fn) ==
    arb # <<>> /\ "fn" \in DOMAIN arb[1] /\ arb[1].fn = fn /\ arb[1].result # <<>>

\* C21: calculatePriceDifference(a, b) equals calculatePriceDifference(b, a),
\* is 0 when a equals b, and is 0 whenever either argument is 0.
C21_PriceDifferenceSymmetric ==
    Returned("calculatePriceDifference") =>
        LET a == arb[1].args[1]
            b == arb[1].args[2]
            d == arb[1].result[1]
        IN  /\ d = calculatePriceDifference(b, a)
            /\ a = b => d = rat(0, 1)
            /\ (a = rat(0, 1) \/ b = rat(0, 1)) => d = rat(0, 1)

\* calculatePriceDifference(3000, 3030) returned a difference of about 1 %
C21_Witness ==
    /\ Returned("calculatePriceDifference")
    /\ arb[1].args = <<rat(3000, 1), rat(3030, 1)>>
    /\ rLess(rat(9, 10), arb[1].result[1])
    /\ rLess(arb[1].result[1], rat(11, 10))

C24_SlippageAgainstTrader ==
    Returned("calculatePotentialProfit") =>
        LET buyPrice == arb[1].args[1]
            sellPrice == arb[1].args[2]
            tradeAmount == arb[1].args[3]
            s == arb[1].args[4]
            r == arb[1].result[1]
            hundredth == rQuot(s, rat(100, 1))
            unslipped == rProd(tradeAmount, rDiff(sellPrice, buyPrice))
        IN  /\ r.effectiveBuyPrice = rSum(buyPrice, rProd(buyPrice, hundredth))
            /\ r.effectiveSellPrice = rDiff(sellPrice, rProd(sellPrice, hundredth))
            /\ r.grossProfitQuote =
                   rProd(tradeAmount, rDiff(r.effectiveSellPrice, r.effectiveBuyPrice))
            /\ s = rat(0, 1) => r.grossProfitQuote = unslipped
            /\ rLess(rat(0, 1), s) => rLess(r.grossProfitQuote, unslipped)

\* calculatePotentialProfit(3000, 3030, 1, 0.5) returned a gross profit below 30
C24_Witness ==
    /\ Returned("calculatePotentialProfit")
    /\ arb[1].args = <<rat(3000, 1), rat(3030, 1), rat(1, 1), rat(1, 2)>>
    /\ rLess(arb[1].result[1].grossProfitQuote, rat(30, 1))
    /\ rLess(rat(3000, 1), arb[1].result[1].effectiveBuyPrice)
    /\ rLess(arb[1].result[1].effectiveSellPrice, rat(3030, 1))

-----------------------------------------------------------------------------
(* Properties of the analysis *)

\* the direct analyzeArbitrage call has returned
Analyzed ==
    arb # <<>> /\ "prices" \in DOMAIN arb[1] /\ arb[1].result # <<>>

\* the outcome list is one valid quote of source a at price pa followed by
\* one of source b at price pb
QuotePair(a, pa, b, pb) ==
    /\ Len(arb[1].prices) = 2
    /\ arb[1].prices[1].dex = a /\ arb[1].prices[2].dex = b
    /\ "priceToken0InToken1" \in DOMAIN arb[1].prices[1]
    /\ "priceToken0InToken1" \in DOMAIN arb[1].prices[2]
    /\ arb[1].prices[1].priceToken0InToken1 = rat(pa, 1)
    /\ arb[1].prices[2].priceToken0InToken1 = rat(pb, 1)

NoTradeBelowThreshold == "NO TRADE - Price difference below minimum threshold"
NoTradeUnprofitable == "NO TRADE - Gas costs ($1) exceed potential profit ($2)"
Profitable == "PROFITABLE - Net profit after gas: $1"

\* C25: the recommendation is decided by the threshold check and the
\* profitability flag alone: below the threshold, the below-threshold text;
\* threshold met but not profitable, the unprofitable text; otherwise
\* Profitable. It is Profitable exactly when hasOpportunity and
\* isProfitableAfterGas are both true.
C25_RecommendationFromFlags ==
    (Analyzed /\ "recommendation" \in DOMAIN arb[1].result[1]) =>
        LET r == arb[1].result[1]
            text == r.recommendation.text
        IN  /\ ~r.priceDifference.meetsThreshold => text = NoTradeBelowThreshold
            /\ (r.priceDifference.meetsThreshold /\ ~r.isProfitableAfterGas)
                   => text = NoTradeUnprofitable
            /\ (r.priceDifference.meetsThreshold /\ r.isProfitableAfterGas)
                   => text = Profitable
            /\ (text = Profitable) = (r.hasOpportunity /\ r.isProfitableAfterGas)

\* an analysis recommended Profitable
C25_Witness ==
    /\ Analyzed
    /\ "recommendation" \in DOMAIN arb[1].result[1]
    /\ arb[1].result[1].recommendation.text = Profitable
    /\ arb[1].result[1].hasOpportunity
    /\ arb[1].result[1].isProfitableAfterGas

\* the call analyzeArbitrage([A at 3000, B at 3030], 1, 0.01) has returned
Quotes3000And3030 ==
    /\ Analyzed
    /\ QuotePair("Uniswap V3", 3000, "Aerodrome CL", 3030)
    /\ arb[1].tradeAmountEth = rat(1, 1)
    /\ arb[1].gasCostUsd = rat(1, 100)

C27_SameSourceNeverDistinctAlwaysCompared ==
    Analyzed =>
        LET r == arb[1].result[1]
            prices == arb[1].prices
            valid == ValidQuotes(prices)
        IN  /\ "direction" \in DOMAIN r => r.direction.buyFrom # r.direction.sellTo
            /\ "direction" \notin DOMAIN r =>
                   /\ ~r.hasOpportunity
                   /\ "profitAnalysis" \notin DOMAIN r
                   /\ "isProfitableAfterGas" \notin DOMAIN r
            /\ (\E i, j \in valid :
                    /\ prices[i].dex # prices[j].dex
                    /\ prices[i].priceToken0InToken1 # prices[j].priceToken0InToken1)
                   => "direction" \in DOMAIN r

-----------------------------------------------------------------------------
(* Properties of concurrent invocations *)

\* the number of failures the invocations have caught so far: each is one
\* analyzeError call when the handler classifies
FailuresCaught ==
    inv["A"].retries + inv["B"].retries

\* C28: with failures of concurrent invocations diagnosed by one agent in any
\* interleaving, after k analyzeError calls totalAnalyses = successfulDiagnoses
\* = k, k diagnoses are stored, and the history holds min(k, errorHistoryLimit)
\* entries.
C28_NoLostDiagnosis ==
    handlerConfig.useAIAgent =>
        LET k == FailuresCaught
            limit == agentConfig.errorHistoryLimit
        IN  /\ performanceMetrics.totalAnalyses = k
            /\ performanceMetrics.successfulDiagnoses = k
            /\ Len(diagnosticResults) = k
            /\ Len(errorHistory) = IF k < limit THEN k ELSE limit

\* both invocations failed once before either failed again, and the history
\* of limit 2 has evicted an entry
C28_Witness ==
    /\ handlerConfig.useAIAgent
    /\ agentConfig.errorHistoryLimit = 2
    /\ inv["A"].retries >= 1 /\ inv["B"].retries >= 1
    /\ FailuresCaught >= 3
    /\ errorLog[1].retryCount = 1 /\ errorLog[2].retryCount = 1
    /\ Len(errorHistory) = 2
    /\ performanceMetrics.totalAnalyses = FailuresCaught

\* C29: retry state is per invocation: a step of one invocation leaves the
\* attempt counter, the last error, the waits and the position of the other
\* unchanged, whatever the other is doing; each invocation has waited once
\* per failure of its own that was followed by a retry, and is never started
\* again by the other's timer.
C29_RetryStatePerInvocation ==
    [][/\ \A c \in Calls :
              inv'[c] # inv[c] => \A d \in Calls \ {c} : inv'[d] = inv[d]
       /\ \A c \in Calls :
              /\ inv'[c].fnCalls <= inv'[c].retries + 1
              /\ inv'[c].pc \in {"delaying", "attempting", "returned"}
                     => Len(inv'[c].delays) = inv'[c].retries]_vars

\* in a handler without classification invocation A failed first and is
\* waiting for its first retry, while B failed after it, retried and returned
C29_Witness ==
    /\ ~handlerConfig.useAIAgent
    /\ inv["A"].pc = "delaying" /\ inv["A"].retries = 1 /\ inv["A"].fnCalls = 1
    /\ inv["A"].context.operation = "" /\ inv["B"].context.operation = "price_fetch"
    /\ Len(errorLog) = 2
    /\ errorLog[1].context.operation = "" /\ errorLog[2].context.operation = "price_fetch"
    /\ inv["B"].pc = "returned" /\ inv["B"].retries = 1 /\ inv["B"].fnCalls = 2

-----------------------------------------------------------------------------
(* Properties of the authorization workflow *)

\* C30: on an agent that requires authorization, a requestAuthorization call
\* first queues its request in pendingChanges; without a callback it returns
\* authorized = false, pending = true and the request id; with a callback the
\* request enters authorizedChanges and recommendationsAccepted grows by one
\* exactly when the callback approves, recommendationsRejected grows by one
\* when it does not; authorizedChanges and recommendationsAccepted change in
\* no other way, and every authorized change was queued.
C30_AuthorizationWorkflow ==
    [][agentConfig.requireAuthForChanges =>
        LET accepted == performanceMetrics.recommendationsAccepted
            rejected == performanceMetrics.recommendationsRejected
            approves(r) == /\ auth[r].pc = "awaiting" /\ auth'[r].pc = "returned"
                           /\ auth'[r].result[1].authorized = <<TRUE>>
        IN  /\ \A r \in DOMAIN auth :
                   (auth[r].pc = "idle" /\ auth'[r].pc # "idle") =>
                       /\ pendingChanges' = Append(pendingChanges, auth'[r].authRequest[1])
                       /\ authorizedChanges' = authorizedChanges
                       /\ performanceMetrics' = performanceMetrics
                       /\ IF auth'[r].authCallback = "function"
                          THEN auth'[r].pc = "awaiting" /\ auth'[r].result = <<>>
                          ELSE /\ auth'[r].pc = "returned"
                               /\ auth'[r].result[1].authorized = <<FALSE>>
                               /\ auth'[r].result[1].pending = TRUE
                               /\ auth'[r].result[1].authRequestId = auth'[r].authRequest[1].id
            /\ \A r \in DOMAIN auth :
                   (auth[r].pc = "awaiting" /\ auth'[r].pc = "returned") =>
                       IF auth'[r].result[1].authorized = <<TRUE>>
                       THEN /\ authorizedChanges' = Append(authorizedChanges, auth[r].authRequest[1])
                            /\ performanceMetrics'.recommendationsAccepted = accepted + 1
                            /\ performanceMetrics'.recommendationsRejected = rejected
                       ELSE /\ authorizedChanges' = authorizedChanges
                            /\ performanceMetrics'.recommendationsAccepted = accepted
                            /\ performanceMetrics'.recommendationsRejected = rejected + 1
            /\ authorizedChanges' # authorizedChanges => \E r \in DOMAIN auth : approves(r)
            /\ performanceMetrics'.recommendationsAccepted # accepted
                   => \E r \in DOMAIN auth : approves(r)
            /\ \A i \in DOMAIN authorizedChanges' :
                   \E j \in DOMAIN pendingChanges' : pendingChanges'[j] = authorizedChanges'[i]]_vars

\* of two requests made with a callback one was approved and one rejected
C30_Witness ==
    /\ agentConfig.requireAuthForChanges
    /\ auth["R1"].pc = "returned" /\ auth["R2"].pc = "returned"
    /\ auth["R1"].result[1].authorized = <<TRUE>>
    /\ auth["R2"].result[1].authorized = <<FALSE>>
    /\ Len(pendingChanges) = 2
    /\ authorizedChanges = auth["R1"].authRequest
    /\ performanceMetrics.recommendationsAccepted = 1
    /\ performanceMetrics.recommendationsRejected = 1

-----------------------------------------------------------------------------
(* Frame, bounds and monitoring *)

\* C32: every collection in which the agent retains diagnoses is a bounded
\* rolling history: neither errorHistory nor diagnosticResults ever holds more
\* than errorHistoryLimit entries.
C32_EveryRetainedCollectionBounded ==
    /\ Len(errorHistory) <= agentConfig.errorHistoryLimit
    /\ Len(diagnosticResults) <= agentConfig.errorHistoryLimit

\* C33: a wrapped price fetch that fails because the pair is unconfigured is
\* classified Configuration and is not retried: fn is invoked once and no
\* backoff delay is awaited.
C33_UnconfiguredPairNotRetried ==
    (handlerConfig.useAIAgent /\ fetch.pair \notin DOMAIN POOLS) =>
        /\ inv["A"].fnCalls <= 1
        /\ inv["A"].delays = <<>>
        /\ inv["A"].pc # "fixes"
        /\ inv["A"].diagnosis # <<>> =>
               inv["A"].diagnosis[1].category = ERROR_CATEGORIES.CONFIG

\* C34: whatever the interleaving of the invocations sharing one handler, the
\* aiDiagnosis of an error thrown by an invocation is the diagnosis made of
\* that invocation's own last failure, never one made for another invocation.
C34_DiagnosisOfOwnInvocation ==
    \A c \in Calls :
        (inv[c].pc = "thrown" /\ handlerConfig.useAIAgent) =>
            /\ inv[c].thrown[1].aiDiagnosis = inv[c].diagnosis
            /\ \A d \in Calls \ {c} :
                   inv[d].diagnosis # <<>> =>
                       inv[c].thrown[1].aiDiagnosis[1].timestamp # inv[d].diagnosis[1].timestamp

\* C35: a wrapped invocation that has started ends by returning or throwing
\* when every call of fn settles, after at most maxRetries + 1 calls of fn and
\* at most maxRetries awaited delays, for every retry policy and with or
\* without the agent.
C35_WrappedInvocationTerminates ==
    /\ [](inv["A"].fnCalls <= handlerConfig.maxRetries + 1
          /\ Len(inv["A"].delays) <= handlerConfig.maxRetries)
    /\ (inv["A"].pc # "idle") ~> (inv["A"].pc \in {"returned", "thrown"})

\* without the agent a Configuration failure is retried until the attempts
\* are exhausted, and then thrown
C35_Witness ==
    /\ ~handlerConfig.useAIAgent
    /\ handlerConfig.maxRetries = MaxRetriesBound
    /\ inv["A"].pc = "thrown"
    /\ inv["A"].lastError = err.Config
    /\ inv["A"].fnCalls = MaxRetriesBound + 1
    /\ Len(inv["A"].delays) = MaxRetriesBound

\* C37: between resets the history holds min(totalAnalyses, errorHistoryLimit)
\* entries, so a report is critical with score 20 whenever 0 < totalAnalyses <
\* 2 * errorHistoryLimit, and healthy with score 100 only when totalAnalyses
\* is 0 or at least 10 * errorHistoryLimit.
C37_HealthFollowsAnalysisCount ==
    LET limit == agentConfig.errorHistoryLimit
        total == performanceMetrics.totalAnalyses
    IN  /\ Len(errorHistory) = IF total < limit THEN total ELSE limit
        /\ lastReport # <<>> =>
               LET reported == lastReport[1].performanceMetrics.totalAnalyses
                   health == lastReport[1].systemHealth
               IN  /\ lastReport[1].errorAnalysis.totalErrors
                          = IF reported < limit THEN reported ELSE limit
                   /\ (0 < reported /\ reported < 2 * limit) =>
                          (health.status = "critical" /\ health.score = 20)
                   /\ (health.status = "healthy" \/ health.score = 100) =>
                          /\ health.status = "healthy" /\ health.score = 100
                          /\ reported = 0 \/ reported >= 10 * limit

\* after a reset and ten further analyses, with a history of one entry, the
\* report is healthy
C37_Witness ==
    /\ agentConfig.errorHistoryLimit = 1
    /\ performanceMetrics.totalAnalyses = 10
    /\ Len(diagnosticResults) = 10
    /\ clock > 10
    /\ Len(errorHistory) = 1
    /\ lastReport # <<>>
    /\ lastReport[1].performanceMetrics.totalAnalyses = 10
    /\ lastReport[1].systemHealth.status = "healthy"
    /\ lastReport[1].systemHealth.score = 100

-----------------------------------------------------------------------------
(* Consistency of the analysis *)

\* C38: under the default configuration an analysis that is profitable after
\* cost is also an opportunity: isProfitableAfterGas = TRUE implies
\* hasOpportunity = TRUE, for every outcome list, trade amount and cost.
C38_ProfitableImpliesOpportunity ==
    (Analyzed /\ "isProfitableAfterGas" \in DOMAIN arb[1].result[1]) =>
        (arb[1].result[1].isProfitableAfterGas => arb[1].result[1].hasOpportunity)

\* a trade of 2 tokens between quotes of 3030 and 3100 at no cost is
\* profitable and an opportunity
C38_Witness ==
    /\ Analyzed
    /\ QuotePair("Uniswap V3", 3030, "Aerodrome CL", 3100)
    /\ arb[1].tradeAmountEth = rat(2, 1)
    /\ arb[1].gasCostUsd = rat(0, 1)
    /\ arb[1].result[1].isProfitableAfterGas
    /\ arb[1].result[1].hasOpportunity
    /\ arb[1].result[1].profitAnalysis.netProfitUsd = rat(787, 10)

\* C39: a result with a direction names two different sources, its buy price
\* is strictly below its sell price, and each of the two prices is the
\* non-zero price of an entry of the input that did not fail.
C39_DirectionWellFormed ==
    (Analyzed /\ "direction" \in DOMAIN arb[1].result[1]) =>
        LET direction == arb[1].result[1].direction
            prices == arb[1].prices
            Quoted(dex, price) ==
                \E i \in DOMAIN prices :
                    /\ "error" \notin DOMAIN prices[i]
                    /\ prices[i].dex = dex
                    /\ prices[i].priceToken0InToken1 = price
        IN  /\ direction.buyFrom # direction.sellTo
            /\ rLess(direction.buyPrice, direction.sellPrice)
            /\ direction.buyPrice.num # 0 /\ direction.sellPrice.num # 0
            /\ Quoted(direction.buyFrom, direction.buyPrice)
            /\ Quoted(direction.sellTo, direction.sellPrice)

\* of a failed entry followed by quotes of 3001 and 3000, the direction buys
\* at 3000 from the later source and sells at 3001 to the earlier one
C39_Witness ==
    /\ Analyzed
    /\ Len(arb[1].prices) = 3
    /\ "error" \in DOMAIN arb[1].prices[1]
    /\ "priceToken0InToken1" \in DOMAIN arb[1].prices[2]
    /\ "priceToken0InToken1" \in DOMAIN arb[1].prices[3]
    /\ arb[1].prices[2] = [dex |-> "Aerodrome CL", priceToken0InToken1 |-> rat(3001, 1),
                           liquidity |-> "1000000"]
    /\ arb[1].prices[3] = [dex |-> "BaseSwap", priceToken0InToken1 |-> rat(3000, 1),
                           liquidity |-> "1000000"]
    /\ "direction" \in DOMAIN arb[1].result[1]
    /\ arb[1].result[1].direction.buyFrom = "BaseSwap"
    /\ arb[1].result[1].direction.sellTo = "Aerodrome CL"
    /\ arb[1].result[1].direction.buyPrice = rat(3000, 1)
    /\ arb[1].result[1].direction.sellPrice = rat(3001, 1)

-----------------------------------------------------------------------------
(* Bookkeeping of authorizations *)

\* C36: in every reachable state of an agent every authorized change is
\* among the pending ones, recommendationsAccepted is the number of authorized
\* changes, accepted + rejected is at most the number of pending changes, and
\* the pendingAuthorizations of a report are the pending requests that are not
\* authorized.
C36_AuthorizationBookkeeping ==
    LET accepted == performanceMetrics.recommendationsAccepted
        rejected == performanceMetrics.recommendationsRejected
        IsAuthorized(c) == \E i \in DOMAIN authorizedChanges : authorizedChanges[i] = c
    IN  /\ \A i \in DOMAIN authorizedChanges :
               \E j \in DOMAIN pendingChanges : pendingChanges[j] = authorizedChanges[i]
        /\ accepted = Len(authorizedChanges)
        /\ accepted + rejected <= Len(pendingChanges)
        /\ generateOptimizationReport.pendingAuthorizations
               = SelectSeq(pendingChanges, LAMBDA c : ~IsAuthorized(c))

-----------------------------------------------------------------------------
(* Diagnostics are observational *)

\* the result of analyzeArbitrage for quotes of 3000 and `price`, less its timestamp
SampleAnalysis(price) ==
    LET result ==
            analyzeArbitrage(
                <<[dex |-> "Uniswap V3", priceToken0InToken1 |-> rat(3000, 1),
                   liquidity |-> "1000000"],
                  [dex |-> "Aerodrome CL", priceToken0InToken1 |-> rat(price, 1),
                   liquidity |-> "1000000"]>>,
                rat(1, 1), rat(1, 100))
    IN  [field \in DOMAIN result \ {"timestamp"} |-> result[field]]

\* C31: no analyzeError, optimizeTradingParameters, requestAuthorization (its
\* approval included) or report generation changes ARBITRAGE_CONFIG,
\* GAS_CONFIG or the handler's retry policy, so analyzeArbitrage gives for the
\* same quotes the results it gave when config.js was loaded: 3000/3001 is no
\* opportunity, 3000/3030 an unprofitable one (gross -0.15), 3000/3100 a
\* profitable one (net 69.48), and the backoff delay of a retry is the same.
C31_DiagnosticsObservationalOnly ==
    /\ [](/\ tradingConfig = [ARBITRAGE_CONFIG |-> ARBITRAGE_CONFIG, GAS_CONFIG |-> GAS_CONFIG]
          /\ ~SampleAnalysis(3001).hasOpportunity
          /\ SampleAnalysis(3030).hasOpportunity
          /\ ~SampleAnalysis(3030).isProfitableAfterGas
          /\ SampleAnalysis(3030).profitAnalysis.grossProfitUsd = rat(0 - 3, 20)
          /\ SampleAnalysis(3100).hasOpportunity
          /\ SampleAnalysis(3100).isProfitableAfterGas
          /\ SampleAnalysis(3100).profitAnalysis.netProfitUsd = rat(3474, 50)
          /\ calculateDelay(2) = 2 * DefaultRetryDelayMs)
    /\ [][tradingConfig' = tradingConfig /\ handlerConfig' = handlerConfig]_vars

\* after three slippage failures an optimisation proposes a higher slippage
\* tolerance, its code change was submitted and approved and a report lists
\* it, and the configuration is still the one config.js was loaded with
C31_Witness ==
    /\ Len(errorHistory) >= 3
    /\ recommendations # <<>>
    /\ "SLIPPAGE_TOLERANCE_PERCENT" \in recommendations[1].recommendedParams
    /\ auth["R1"].pc = "returned"
    /\ auth["R1"].result[1].authorized = <<TRUE>>
    /\ Len(authorizedChanges) = 1
    /\ lastReport # <<>>
    /\ lastReport[1].recommendations = recommendations
    /\ lastReport[1].performanceMetrics.recommendationsAccepted = 1
    /\ tradingConfig.ARBITRAGE_CONFIG.SLIPPAGE_TOLERANCE_PERCENT = rat(1, 2)
    /\ SampleAnalysis(3100).isProfitableAfterGas

-----------------------------------------------------------------------------
(* Continuous monitoring *)

\* C40: in monitoring mode a failed cycle does not stop monitoring: after a
\* cycle in which main fails the process is still running, and every cycle
\* that is over was followed by a wait of intervalMs before the next one.
C40_FailedCycleDoesNotStopMonitoring ==
    (mon # <<>> /\ mon[1].pair \in DOMAIN POOLS) =>
        /\ mon[1].failedCycles > 0 => mon[1].pc \in {"main", "waiting"}
        /\ Len(mon[1].waits) = mon[1].cycleCount - (IF mon[1].pc = "main" THEN 1 ELSE 0)
        /\ \A i \in DOMAIN mon[1].waits : mon[1].waits[i] = mon[1].intervalMs

====
